---- MODULE Spec2Model ----
(***************************************************************************)
(* A model of the request-routing layer of the proxy: the transaction      *)
(* processor (process/transactionProcessor), the ESDT supply processor and *)
(* the node-status processor.                                              *)
(* One behaviour is one request served by a processor.  The processors     *)
(* keep no state of their own, so the state is the request's position in   *)
(* its handler, the observer list it iterates, the backend calls it has    *)
(* made and the answers it received.  A backend call is two steps: the     *)
(* call is issued (the handler blocks) and the answer is consumed.  Where  *)
(* two requests are served concurrently, the variables are those of the    *)
(* request taking the step and the other request is kept in parked.        *)
(***************************************************************************)
EXTENDS Integers, Sequences, FiniteSets, TLC

VARIABLES
    registry,   \* shard -> number of observers configured (-1: lookup fails)
    fullHistory, \* shard -> number of full-history nodes (-1: lookup fails)
    shouldAllowEntireTxPoolFetch, \* the field of TransactionProcessor
    env,        \* "free": an observer's answer is drawn when it is consumed;
                \* "fixed": the answers of a list are drawn when its loop starts;
                \* "classes": as "free", one answer per class of answers and
                \* a sample of the transactions
    answers,    \* env = "fixed": answers[i] is what nodes[i] answers
    lookups,    \* the registry lookups made so far, in order
    op,         \* the operation being served
    tx,         \* the transaction given to the operation
    checkSig,   \* SimulateTransaction's checkSignature argument
    args,       \* the arguments of the other operations
    chain,      \* the transaction the observers hold under the hash asked for
    locals,     \* the local variables of the handler that outlive a call
    scQueries,  \* the queries given to scQueryProc.ExecuteQuery so far
    pc,         \* position in the handler
    nodes,      \* the observer list of the loop being run
    idx,        \* index in nodes of the next observer to contact
    loopStart,  \* Len(calls) when the loop being run was entered
    calls,      \* backend calls issued so far, in order: [node, path, pos, of]
    outs,       \* answers consumed so far: outs[i] answers calls[i]
    senderResp, \* SimulateTransaction: what the sender-shard simulation returned
    result,     \* what the operation returned
    parked      \* where two requests are served concurrently: the request
                \* that is not taking the step, as a record of its variables

vars == <<registry, fullHistory, shouldAllowEntireTxPoolFetch, env, answers,
          lookups, op, tx, checkSig, args, chain, locals, scQueries, pc, nodes,
          idx, loopStart, calls, outs, senderResp, result, parked>>

\* the fields of the processors and the state of their collaborators
processor == <<registry, fullHistory, shouldAllowEntireTxPoolFetch>>

\* what a request does not change: the processor and the other request
config == <<registry, fullHistory, shouldAllowEntireTxPoolFetch, env, parked>>

\* what SendTransaction and SimulateTransaction do not use
others == <<args, chain, locals, scQueries>>

---------------------------------------------------------------------------
(* Bounds of the model *)

\* nodes in a list of observers or of full-history nodes, at most
MaxObs == 2
\* length of a signature string, at most
MaxSigLen == 2
\* transactions given to SendMultipleTransactions, at most
MaxTxs == 2
\* smart contract results in the list a shard holds, at most
MaxScrs == 2
\* length of a token identifier, at most
MaxTokenLen == 3

---------------------------------------------------------------------------
(* HTTP status codes used by the handlers *)

StatusOK == 200
StatusBadRequest == 400
StatusNotFound == 404
StatusRequestTimeout == 408
StatusTooManyRequests == 429
StatusInternalServerError == 500

\* statuses a backend call may come back with
Statuses ==
    {StatusOK, StatusBadRequest, StatusNotFound, StatusRequestTimeout,
     StatusTooManyRequests, StatusInternalServerError}

\* a path is the sequence of the strings it is concatenated from
TransactionSendPath == <<"/transaction/send">>
TransactionSimulatePath == <<"/transaction/simulate">>
checkSignatureFalse == <<"?checkSignature=false">>

---------------------------------------------------------------------------
(* Errors.  Every error is a record with a kind. *)

Nil == [kind |-> "nil"]
ErrSendingRequest == [kind |-> "ErrSendingRequest"]
ErrNoObserversForShard == [kind |-> "ErrNoObserversForShard"]
ErrDecode == [kind |-> "decode"]
ErrComputeShardId == [kind |-> "ComputeShardId"]

ErrInvalidTxFields(message, reason) ==
    [kind |-> "ErrInvalidTxFields", message |-> message, reason |-> reason]

\* the error a backend call came back with: none, a transport error (no HTTP
\* answer was obtained) or the error body of the backend's answer
ErrKinds == {"nil", "transport", "backend"}

CallErr(kind, node) ==
    IF kind = "nil" THEN Nil ELSE [kind |-> kind, node |-> node]

\* what a backend call returns: (status, error)
Outcomes == [status : Statuses, err : ErrKinds]

\* one answer of each class the loops tell apart: 200 and no error, another
\* status and no error, an error
Replies ==
    {[status |-> StatusOK, err |-> "nil"],
     [status |-> StatusNotFound, err |-> "nil"],
     [status |-> StatusInternalServerError, err |-> "transport"]}

---------------------------------------------------------------------------
(* Addresses and the shard coordinator *)

\* "a0", "a1": addresses of shards 0 and 1; "aX": decodes, but its shard
\* cannot be computed; "bad": does not decode
Addresses == {"a0", "a1", "aX", "bad"}

WorkerShards == {0, 1}

\* core.MetachainShardId, the uint32 0xFFFFFFFF: written as the 32-bit signed
\* integer of the same bits, the integers of the model checker being 32-bit
MetachainShardId == -1

AllShards == WorkerShards \cup {MetachainShardId}

\* proc.GetShardIDs
GetShardIDs == <<0, 1, MetachainShardId>>

\* pubKeyConverter.Decode
Decode(address) ==
    IF address \in {"a0", "a1", "aX"}
    THEN [err |-> Nil, bytes |-> address]
    ELSE [err |-> ErrDecode, bytes |-> ""]

\* proc.ComputeShardId
ComputeShardId(bytes) ==
    IF bytes = "a0" THEN [err |-> Nil, shard |-> 0]
    ELSE IF bytes = "a1" THEN [err |-> Nil, shard |-> 1]
    ELSE [err |-> ErrComputeShardId, shard |-> 0]

\* an observer: its address and its shard
Node(shard, i) == [address |-> <<"observer", shard, i>>, shard |-> shard]

\* a full-history node
FullHistoryNode(shard, i) ==
    [address |-> <<"fullHistory", shard, i>>, shard |-> shard]

\* proc.GetObservers
GetObservers(shard) ==
    IF registry[shard] < 0
    THEN [err |-> ErrNoObserversForShard, observers |-> <<>>]
    ELSE [err |-> Nil, observers |-> [i \in 1..registry[shard] |-> Node(shard, i)]]

\* proc.GetFullHistoryNodes
GetFullHistoryNodes(shard) ==
    IF fullHistory[shard] < 0
    THEN [err |-> ErrNoObserversForShard, observers |-> <<>>]
    ELSE [err |-> Nil,
          observers |-> [i \in 1..fullHistory[shard] |-> FullHistoryNode(shard, i)]]

---------------------------------------------------------------------------
(* Transactions *)

SigChars == {"a", "g"}

HexDigits ==
    {"0", "1", "2", "3", "4", "5", "6", "7", "8", "9",
     "a", "b", "c", "d", "e", "f", "A", "B", "C", "D", "E", "F"}

Signatures == UNION {[1..n -> SigChars] : n \in 0..MaxSigLen}

Transactions ==
    [Sender : Addresses, Receiver : Addresses, ChainID : {"", "T"},
     Version : {0, 1}, Signature : Signatures]

\* a sample of the transactions: a valid one from each shard, one whose
\* shard cannot be computed, one without version
SampleTransactions ==
    {t \in Transactions :
        /\ t.Receiver = "a1" /\ t.ChainID = "T" /\ t.Signature = <<>>
        /\ t.Sender # "bad"
        /\ t.Version = 0 => t.Sender = "a0"}

\* the transactions a request is served for
RequestTransactions ==
    IF env \in {"classes", "fixedClasses"} THEN SampleTransactions ELSE Transactions

NoTx ==
    [Sender |-> "bad", Receiver |-> "bad", ChainID |-> "", Version |-> 0,
     Signature |-> <<>>]

\* hex.DecodeString: nil error exactly for an even number of hex digits
HexDecodeString(s) ==
    IF Len(s) % 2 = 0 /\ \A i \in 1..Len(s) : s[i] \in HexDigits
    THEN Nil
    ELSE [kind |-> "hex"]

\* checkTransactionFields with an empty signature rejected
checkTransactionFields_EmptySig(t) ==
    IF Decode(t.Sender).err # Nil
    THEN ErrInvalidTxFields("invalid sender address", Decode(t.Sender).err.kind)
    ELSE IF Decode(t.Receiver).err # Nil
    THEN ErrInvalidTxFields("invalid receiver address", Decode(t.Receiver).err.kind)
    ELSE IF t.ChainID = ""
    THEN ErrInvalidTxFields("transaction must contain chainID", "no chainID")
    ELSE IF t.Version = 0
    THEN ErrInvalidTxFields("transaction must contain version", "no version")
    ELSE IF t.Signature = <<>> \/ HexDecodeString(t.Signature) # Nil
    THEN ErrInvalidTxFields("invalid signature, could not decode hex value", "hex")
    ELSE Nil

checkTransactionFields(t) ==
    IF Decode(t.Sender).err # Nil
    THEN ErrInvalidTxFields("invalid sender address", Decode(t.Sender).err.kind)
    ELSE IF Decode(t.Receiver).err # Nil
    THEN ErrInvalidTxFields("invalid receiver address", Decode(t.Receiver).err.kind)
    ELSE IF t.ChainID = ""
    THEN ErrInvalidTxFields("transaction must contain chainID", "no chainID")
    ELSE IF t.Version = 0
    THEN ErrInvalidTxFields("transaction must contain version", "no version")
    ELSE IF HexDecodeString(t.Signature) # Nil
    THEN ErrInvalidTxFields("invalid signature, could not decode hex value",
                            HexDecodeString(t.Signature).kind)
    ELSE Nil

---------------------------------------------------------------------------
(* Backend calls *)

\* the tx hash carried by the answer of an observer
TxHashOf(node) == <<"txHash", node.address>>
NoHash == <<>>

\* a call is awaited: the handler is blocked in CallGet/CallPostRestEndPoint
Blocked == Len(outs) < Len(calls)

\* NextIdx with the index left where it is: the same observer is asked again
NextIdx_Same(i) == i

\* the next index of a loop over observers
NextIdx(i) == i + 1

\* the handler may issue the call to the next observer of its loop: the
\* calls are synchronous, the previous one has returned
MayCall == ~Blocked /\ idx <= Len(nodes)

\* the handler issues the call to the next observer of its loop; pos and of
\* record the observer's position in the list and the length of the list
IssueCall(path) ==
    /\ MayCall
    /\ calls' = Append(calls, [node |-> nodes[idx], path |-> path,
                               pos |-> idx, of |-> Len(nodes)])
    /\ idx' = NextIdx(idx)

\* the answers the awaited call may come back with
Answers ==
    IF env \in {"fixed", "fixedClasses"} THEN {answers[calls[Len(calls)].pos]}
    ELSE IF env \in {"classes", "merge"} THEN Replies
    ELSE Outcomes

\* the answers of a list of observers known when its loop starts
AnswersOf(observers) ==
    IF env = "fixed" THEN [1..Len(observers) -> Outcomes]
    ELSE IF env = "fixedClasses" THEN [1..Len(observers) -> Replies]
    ELSE {<<>>}

\* the operation returns r
Return(r) ==
    /\ pc' = "done"
    /\ result' = r

\* the handler enters a loop over observers at position p
EnterLoop(p, observers) ==
    /\ pc' = p
    /\ nodes' = observers
    /\ idx' = 1
    /\ loopStart' = Len(calls)
    /\ answers' \in AnswersOf(observers)

\* a registry lookup
Lookup(what, shard) == [what |-> what, shard |-> shard]

\* the handler stays where it is
NoLoop == UNCHANGED <<nodes, idx, loopStart, answers>>

---------------------------------------------------------------------------
(* SendTransaction *)

SendResult(code, hash, err) == [code |-> code, hash |-> hash, err |-> err]

\* the answer ends the loop with success
SendIsOk(o) == o.status = StatusOK /\ o.err = "nil"

\* SendIsSkip with status 429 skipped too
SendIsSkip_With429(o) ==
    \/ o.status = StatusNotFound
    \/ o.status = StatusRequestTimeout
    \/ o.status = StatusTooManyRequests

\* SendIsSkip without the request timeout
SendIsSkip_No408(o) == o.status = StatusNotFound

\* SendIsSkip with every answer that carries an error skipped
SendIsSkip_AnyErr(o) ==
    o.status = StatusNotFound \/ o.status = StatusRequestTimeout \/ o.err # "nil"

\* the answer makes the loop go on to the next observer
SendIsSkip(o) == o.status = StatusNotFound \/ o.status = StatusRequestTimeout

\* SendInvalid with the status of an internal error
SendInvalid_500(err) == SendResult(StatusInternalServerError, NoHash, err)

\* what SendTransaction returns when the transaction fails the validation
SendInvalid(err) == SendResult(StatusBadRequest, NoHash, err)

\* SendExhausted with the status of the last answer, a skipped one
SendExhausted_404 == SendResult(StatusNotFound, NoHash, ErrSendingRequest)

\* what SendTransaction returns when its loop ends without a return
SendExhausted == SendResult(StatusInternalServerError, NoHash, ErrSendingRequest)

SendTransaction ==
    /\ pc = "idle"
    /\ \E t \in RequestTransactions :
        /\ op' = "SendTransaction"
        /\ tx' = t
        /\ LET err == checkTransactionFields(t)
               senderBuff == Decode(t.Sender)
               shardID == ComputeShardId(senderBuff.bytes)
               observers == GetObservers(shardID.shard)
           IN  IF err # Nil
               THEN Return(SendInvalid(err)) /\ NoLoop /\ UNCHANGED lookups
               ELSE IF senderBuff.err # Nil
               THEN Return(SendResult(StatusBadRequest, NoHash, senderBuff.err))
                    /\ NoLoop /\ UNCHANGED lookups
               ELSE IF shardID.err # Nil
               THEN Return(SendResult(StatusInternalServerError, NoHash, shardID.err))
                    /\ NoLoop /\ UNCHANGED lookups
               ELSE /\ lookups' = Append(lookups, Lookup("GetObservers", shardID.shard))
                    /\ IF observers.err # Nil
                       THEN Return(SendResult(StatusInternalServerError, NoHash,
                                              observers.err))
                            /\ NoLoop
                       ELSE IF observers.observers = <<>>
                       THEN Return(SendExhausted) /\ NoLoop
                       ELSE EnterLoop("SendTransaction", observers.observers)
                            /\ UNCHANGED result
    /\ UNCHANGED <<config, others, checkSig, calls, outs, senderResp>>

SendTransactionCall ==
    /\ pc = "SendTransaction"
    /\ IssueCall(TransactionSendPath)
    /\ UNCHANGED <<config, others, answers, lookups, op, tx, checkSig, pc, nodes,
                   loopStart, outs, senderResp, result>>

SendTransactionAnswer ==
    /\ pc = "SendTransaction"
    /\ Blocked
    /\ \E o \in Answers :
        LET node == calls[Len(calls)].node IN
        /\ outs' = Append(outs, o)
        /\ IF SendIsOk(o)
           THEN Return(SendResult(o.status, TxHashOf(node), Nil))
           ELSE IF SendIsSkip(o)
           THEN IF idx > Len(nodes)
                THEN Return(SendExhausted)
                ELSE UNCHANGED <<pc, result>>
           ELSE Return(SendResult(o.status, NoHash, CallErr(o.err, node)))
    /\ UNCHANGED <<config, others, answers, lookups, op, tx, checkSig, nodes, idx,
                   loopStart, calls, senderResp>>

---------------------------------------------------------------------------
(* SimulateTransaction *)

\* a nil *data.ResponseTransactionSimulation
NilResp == [kind |-> "nil"]

\* the simulation response decoded from the answer of an observer
SimResponseOf(node) ==
    [kind |-> "response",
     Data |-> [Result |-> <<"simResult", node.address>>],
     Error |-> <<"simError", node.address>>,
     Code |-> <<"simCode", node.address>>]

ReturnCodeSuccess == <<"successful">>

\* what SimulateTransaction returns: a response and an error, or a panic
SimReturn(response, err) == [kind |-> "return", response |-> response, err |-> err]
SimPanic == [kind |-> "panic", response |-> NilResp, err |-> Nil]

\* WrapErr with the error returned as it is
WrapErr_Unwrapped(err, side, shard) == err

\* fmt.Errorf("%w while trying to simulate on <side> shard (shard %d)", err, shard)
WrapErr(err, side, shard) ==
    [kind |-> "wrapped", inner |-> err, side |-> side, shard |-> shard]

SimulatePath(checkSignature) ==
    IF checkSignature
    THEN TransactionSimulatePath
    ELSE TransactionSimulatePath \o checkSignatureFalse

\* simulateTransaction with every answer that is not ok skipped
simulateTransaction_SkipAll(o, node) ==
    IF o.status = StatusOK /\ o.err = "nil"
    THEN [next |-> FALSE, response |-> SimResponseOf(node), err |-> Nil]
    ELSE [next |-> TRUE, response |-> NilResp, err |-> Nil]

\* one iteration of simulateTransaction's loop on the answer o of node:
\* whether the loop goes on, and otherwise what simulateTransaction returns
simulateTransaction(o, node) ==
    IF o.status = StatusOK /\ o.err = "nil"
    THEN [next |-> FALSE, response |-> SimResponseOf(node), err |-> Nil]
    ELSE IF o.status = StatusNotFound \/ o.status = StatusRequestTimeout
    THEN [next |-> TRUE, response |-> NilResp, err |-> Nil]
    ELSE [next |-> FALSE, response |-> NilResp, err |-> CallErr(o.err, node)]

\* simulateTransaction ran out of observers
simulateTransactionExhausted ==
    [next |-> FALSE, response |-> NilResp, err |-> ErrSendingRequest]

\* SimSameShard with the envelope of a success, whatever the observer said
SimSameShard_Success(response) ==
    [kind |-> "response", Data |-> response.Data, Error |-> <<>>,
     Code |-> ReturnCodeSuccess]

\* the envelope returned for an intra-shard transaction
SimSameShard(response) ==
    [kind |-> "response", Data |-> response.Data, Error |-> response.Error,
     Code |-> response.Code]

\* the envelope returned for a cross-shard transaction
SimCrossShard(response, responseFromReceiverShard) ==
    [kind |-> "response",
     Data |-> [Result |-> [senderShard |-> response.Data.Result,
                           receiverShard |-> responseFromReceiverShard.Data.Result]],
     Error |-> <<>>,
     Code |-> ReturnCodeSuccess]

\* SimulateTransaction once the receiver-shard simulation returned r
AfterReceiverSimulation(r, response) ==
    LET receiverShardID == ComputeShardId(Decode(tx.Receiver).bytes).shard IN
    IF r.err # Nil
    THEN Return(SimReturn(NilResp, WrapErr(r.err, "receiver", receiverShardID)))
    ELSE IF response = NilResp \/ r.response = NilResp
    THEN Return(SimPanic)
    ELSE Return(SimReturn(SimCrossShard(response, r.response), Nil))

\* SimulateTransaction once the sender-shard simulation returned r, for the
\* transaction t with sender shard senderShardID; looked are the registry
\* lookups made up to there
AfterSenderSimulation(r, t, senderShardID, looked) ==
    LET receiverBuff == Decode(t.Receiver)
        receiverShardID == ComputeShardId(receiverBuff.bytes)
        observersForReceiverShard == GetObservers(receiverShardID.shard)
    IN  IF r.err # Nil
        THEN Return(SimReturn(NilResp, WrapErr(r.err, "sender", senderShardID)))
             /\ NoLoop /\ lookups' = looked /\ UNCHANGED senderResp
        ELSE IF receiverBuff.err # Nil
        THEN Return(SimReturn(NilResp, receiverBuff.err))
             /\ NoLoop /\ lookups' = looked /\ UNCHANGED senderResp
        ELSE IF receiverShardID.err # Nil
        THEN Return(SimReturn(NilResp, receiverShardID.err))
             /\ NoLoop /\ lookups' = looked /\ UNCHANGED senderResp
        ELSE IF senderShardID = receiverShardID.shard
        THEN (IF r.response = NilResp
              THEN Return(SimPanic)
              ELSE Return(SimReturn(SimSameShard(r.response), Nil)))
             /\ NoLoop /\ lookups' = looked /\ UNCHANGED senderResp
        ELSE /\ lookups' =
                  Append(looked, Lookup("GetObservers", receiverShardID.shard))
             /\ IF observersForReceiverShard.err # Nil
                THEN Return(SimReturn(NilResp, observersForReceiverShard.err))
                     /\ NoLoop /\ UNCHANGED senderResp
                ELSE IF observersForReceiverShard.observers = <<>>
                THEN AfterReceiverSimulation(simulateTransactionExhausted, r.response)
                     /\ NoLoop /\ UNCHANGED senderResp
                ELSE /\ EnterLoop("simulate.receiver",
                                  observersForReceiverShard.observers)
                     /\ senderResp' = r.response
                     /\ UNCHANGED result

SimulateTransaction ==
    /\ pc = "idle"
    /\ \E t \in RequestTransactions, c \in BOOLEAN :
        /\ op' = "SimulateTransaction"
        /\ tx' = t
        /\ checkSig' = c
        /\ LET err == checkTransactionFields(t)
               senderBuff == Decode(t.Sender)
               senderShardID == ComputeShardId(senderBuff.bytes)
               observers == GetObservers(senderShardID.shard)
           IN  IF err # Nil
               THEN Return(SimReturn(NilResp, err))
                    /\ NoLoop /\ UNCHANGED <<lookups, senderResp>>
               ELSE IF senderBuff.err # Nil
               THEN Return(SimReturn(NilResp, senderBuff.err))
                    /\ NoLoop /\ UNCHANGED <<lookups, senderResp>>
               ELSE IF senderShardID.err # Nil
               THEN Return(SimReturn(NilResp, senderShardID.err))
                    /\ NoLoop /\ UNCHANGED <<lookups, senderResp>>
               ELSE IF observers.err # Nil
               THEN Return(SimReturn(NilResp, observers.err))
                    /\ lookups' = Append(lookups, Lookup("GetObservers",
                                                         senderShardID.shard))
                    /\ NoLoop /\ UNCHANGED senderResp
               ELSE IF observers.observers = <<>>
               THEN AfterSenderSimulation(
                        simulateTransactionExhausted, t, senderShardID.shard,
                        Append(lookups, Lookup("GetObservers", senderShardID.shard)))
               ELSE EnterLoop("simulate.sender", observers.observers)
                    /\ lookups' = Append(lookups, Lookup("GetObservers",
                                                         senderShardID.shard))
                    /\ UNCHANGED <<senderResp, result>>
    /\ UNCHANGED <<config, others, calls, outs>>

simulateTransactionCall ==
    /\ pc \in {"simulate.sender", "simulate.receiver"}
    /\ IssueCall(SimulatePath(checkSig))
    /\ UNCHANGED <<config, others, answers, lookups, op, tx, checkSig, pc, nodes,
                   loopStart, outs, senderResp, result>>

simulateTransactionAnswer ==
    /\ pc \in {"simulate.sender", "simulate.receiver"}
    /\ Blocked
    /\ \E o \in Answers :
        LET node == calls[Len(calls)].node
            step == simulateTransaction(o, node)
            r == IF step.next /\ idx > Len(nodes)
                 THEN simulateTransactionExhausted
                 ELSE step
        IN  /\ outs' = Append(outs, o)
            /\ IF r.next
               THEN UNCHANGED <<pc, nodes, idx, loopStart, answers, lookups,
                                senderResp, result>>
               ELSE IF pc = "simulate.sender"
               THEN AfterSenderSimulation(
                        r, tx, ComputeShardId(Decode(tx.Sender).bytes).shard,
                        lookups)
               ELSE AfterReceiverSimulation(r, senderResp)
                    /\ NoLoop /\ UNCHANGED <<lookups, senderResp>>
    /\ UNCHANGED <<config, others, op, tx, checkSig, calls>>

---------------------------------------------------------------------------
(* Steps shared by the handlers below *)

\* what these handlers do not use
sendVars == <<tx, checkSig, senderResp>>

\* no arguments, no chain transaction known, no locals
NoArgs == [none |-> TRUE]
NoChain == [none |-> TRUE]
NoLocals == [none |-> TRUE]

\* the handler returns r
Finish(r) == Return(r) /\ NoLoop

\* the handler moves to position p, outside a loop over observers
Goto(p) == pc' = p /\ NoLoop /\ UNCHANGED result

\* the handler starts the loop over observers at position p
Loop(p, observers) == EnterLoop(p, observers) /\ UNCHANGED result

\* the loop over observers goes on
Continue == UNCHANGED <<pc, result, nodes, idx, loopStart, answers>>

\* the loop over observers has no observer left
Exhausted == idx > Len(nodes)

\* the answer o consumed, with the body decoded from it
Answered(o, body) == [status |-> o.status, err |-> o.err, body |-> body]

\* the call awaited, and the node it went to
LastCall == calls[Len(calls)]

\* errors of the packages process and api/errors
ErrInvalidSenderAddress == [kind |-> "ErrInvalidSenderAddress"]
ErrTransactionNotFound == [kind |-> "ErrTransactionNotFound"]
ErrTransactionsNotFoundInPool == [kind |-> "ErrTransactionsNotFoundInPool"]
ErrOperationNotAllowed == [kind |-> "ErrOperationNotAllowed"]
ErrNoValidTransactionToSend == [kind |-> "ErrNoValidTransactionToSend"]
ErrMissingObserver == [kind |-> "ErrMissingObserver"]

\* fmt.Sprintf("%d", core.MetachainShardId)
metachainIDStr == "4294967295"

\* getShardByAddress
getShardByAddress(address) ==
    IF address # metachainIDStr
    THEN LET senderBuff == Decode(address)
             shardID == ComputeShardId(senderBuff.bytes)
         IN  IF senderBuff.err # Nil THEN [err |-> senderBuff.err, shard |-> 0]
             ELSE IF shardID.err # Nil THEN [err |-> shardID.err, shard |-> 0]
             ELSE [err |-> Nil, shard |-> shardID.shard]
    ELSE [err |-> Nil, shard |-> MetachainShardId]

requestTypeObservers == "requestTypeObservers"
requestTypeFullHistoryNodes == "requestTypeFullHistoryNodes"

\* getNodesInShard with the observers returned whatever the request type
getNodesInShard_ObserversOnly(shardID, reqType) ==
    LET observers == GetObservers(shardID)
    IN  [err |-> observers.err, observers |-> observers.observers,
         looked |-> <<Lookup("GetObservers", shardID)>>]

\* getNodesInShard with a failure of GetObservers returned as an empty list
getNodesInShard_ErrorAsEmpty(shardID, reqType) ==
    LET fullHistoryNodes == GetFullHistoryNodes(shardID)
        observers == GetObservers(shardID)
    IN  IF /\ reqType = requestTypeFullHistoryNodes
           /\ fullHistoryNodes.err = Nil
           /\ Len(fullHistoryNodes.observers) > 0
        THEN [err |-> Nil, observers |-> fullHistoryNodes.observers,
              looked |-> <<Lookup("GetFullHistoryNodes", shardID)>>]
        ELSE [err |-> Nil, observers |-> observers.observers,
              looked |-> <<Lookup("GetObservers", shardID)>>]

\* getNodesInShard: the nodes, the error and the registry lookups made
getNodesInShard(shardID, reqType) ==
    LET fullHistoryNodes == GetFullHistoryNodes(shardID)
        observers == GetObservers(shardID)
        asked == IF reqType = requestTypeFullHistoryNodes
                 THEN <<Lookup("GetFullHistoryNodes", shardID)>>
                 ELSE <<>>
    IN  IF /\ reqType = requestTypeFullHistoryNodes
           /\ fullHistoryNodes.err = Nil
           /\ Len(fullHistoryNodes.observers) > 0
        THEN [err |-> Nil, observers |-> fullHistoryNodes.observers, looked |-> asked]
        ELSE [err |-> observers.err, observers |-> observers.observers,
              looked |-> Append(asked, Lookup("GetObservers", shardID))]

\* getShardObserversForSender
getShardObserversForSender(sender, observersType) ==
    LET sndShardID == getShardByAddress(sender)
        observers == getNodesInShard(sndShardID.shard, observersType)
    IN  IF sndShardID.err # Nil
        THEN [err |-> ErrInvalidSenderAddress, observers |-> <<>>, shard |-> 0,
              looked |-> <<>>]
        ELSE IF observers.err # Nil
        THEN [err |-> observers.err, observers |-> <<>>, shard |-> 0,
              looked |-> observers.looked]
        ELSE [err |-> Nil, observers |-> observers.observers,
              shard |-> sndShardID.shard, looked |-> observers.looked]

\* the senders a request may name
Senders == Addresses \cup {metachainIDStr}

---------------------------------------------------------------------------
(* GetESDTSupply *)

networkESDTSupplyPath == <<"/network/esdt/supply/">>
esdtContractAddress == "erd1qqqqqqqqqqqqqqqpqqqqqqqqqqqqqqqqqqqqqqqqqqqqqqqzllls8a5w6u"
initialESDTSupplyFunc == "getTokenProperties"

\* token identifiers and decimal strings are the sequences of their characters
\* the tokens asked for: every string of a letter and the separator
Tokens == UNION {[1..n -> {"T", "-"}] : n \in 0..MaxTokenLen}

Digits == <<"0", "1", "2", "3", "4", "5", "6", "7", "8", "9">>

DigitValue(c) == CHOOSE d \in 0..9 : Digits[d + 1] = c

RECURSIVE DecimalValue(_)
DecimalValue(s) ==
    IF s = <<>> THEN 0
    ELSE 10 * DecimalValue(SubSeq(s, 1, Len(s) - 1)) + DigitValue(s[Len(s)])

\* big.NewInt(0).SetString(s, 10) for a string without sign: the value, or
\* nil when s is not a number
SetString(s) ==
    IF s # <<>> /\ \A i \in 1..Len(s) : \E d \in 1..10 : Digits[d] = s[i]
    THEN [nil |-> FALSE, value |-> DecimalValue(s)]
    ELSE [nil |-> TRUE, value |-> 0]

\* big.Int.String of a natural number
RECURSIVE BigString(_)
BigString(n) ==
    IF n < 10 THEN <<Digits[n + 1]>>
    ELSE Append(BigString(n \div 10), Digits[(n % 10) + 1])

\* strings.Split(s, "-")
RECURSIVE Split(_)
Split(s) ==
    IF \A i \in 1..Len(s) : s[i] # "-"
    THEN <<s>>
    ELSE LET i == CHOOSE k \in 1..Len(s) :
                      s[k] = "-" /\ \A j \in 1..(k - 1) : s[j] # "-"
         IN  <<SubSeq(s, 1, i - 1)>> \o Split(SubSeq(s, i + 1, Len(s)))

\* isFungibleESDT with a token of two parts taken as not fungible
isFungibleESDT_OnePart(tokenIdentifier) == Len(Split(tokenIdentifier)) < 2

isFungibleESDT(tokenIdentifier) == Len(Split(tokenIdentifier)) < 3

\* the supply strings an observer may report
Supplies == {<<>>, <<"7">>, <<"x">>}

\* the body of the answer o to a supply request: a supply string where the
\* answer is 200; nothing is decoded from another answer, and the response
\* keeps its zero value
SupplyBodies(o) ==
    IF o.status = StatusOK /\ o.err = "nil" THEN Supplies ELSE {<<>>}

\* what scQueryProc.ExecuteQuery may return: an error, or the return data
ErrExecuteQuery == [kind |-> "ExecuteQuery"]

SCQueryResults ==
    {[err |-> ErrExecuteQuery, ReturnData |-> <<>>],
     [err |-> Nil, ReturnData |-> <<<<"n">>, <<"t">>, <<"o">>>>],
     [err |-> Nil, ReturnData |-> <<<<"n">>, <<"t">>, <<"o">>, <<"2">>>>],
     [err |-> Nil, ReturnData |-> <<<<"n">>, <<"t">>, <<"o">>, <<"x">>>>]}

SupplyResponse(supply) == [kind |-> "response", Supply |-> supply]

\* what GetESDTSupply returns: a response and an error, or a panic
ESDTReturn(res, err) == [kind |-> "return", res |-> res, err |-> err]
ESDTPanic == [kind |-> "panic", res |-> NilResp, err |-> Nil]

\* getShardSupplyExhausted with a supply of zero returned for the shard
getShardSupplyExhausted_NoError == ESDTReturn(SupplyResponse(<<"0">>), Nil)

\* what GetESDTSupply returns when the loop of getShardSupply ends without a
\* supply
getShardSupplyExhausted == ESDTReturn(NilResp, ErrSendingRequest)

GetESDTSupply ==
    /\ pc = "idle"
    /\ \E tokenIdentifier \in Tokens :
        /\ op' = "GetESDTSupply"
        /\ args' = [tokenIdentifier |-> tokenIdentifier]
    /\ locals' = [totalSupply |-> 0, shardPos |-> 1]
    /\ Goto("getSupplyFromShards")
    /\ UNCHANGED <<config, sendVars, chain, scQueries, lookups, calls, outs>>

\* GetESDTSupply once getSupplyFromShards returned totalSupply
AfterSupplyFromShards(totalSupply) ==
    IF ~isFungibleESDT(args.tokenIdentifier)
    THEN /\ Finish(ESDTReturn(SupplyResponse(BigString(totalSupply)), Nil))
         /\ UNCHANGED scQueries
    ELSE /\ Goto("getInitialSupplyFromMeta")
         /\ scQueries' = Append(scQueries,
                [ScAddress |-> esdtContractAddress,
                 FuncName |-> initialESDTSupplyFunc,
                 Arguments |-> <<args.tokenIdentifier>>])

\* one iteration of the loop of getSupplyFromShards, up to the first call of
\* getShardSupply
getSupplyFromShards ==
    /\ pc = "getSupplyFromShards"
    /\ IF locals.shardPos > Len(GetShardIDs)
       THEN /\ AfterSupplyFromShards(locals.totalSupply)
            /\ UNCHANGED <<locals, lookups>>
       ELSE LET shardID == GetShardIDs[locals.shardPos]
                shardObservers == GetObservers(shardID)
            IN  IF shardID = MetachainShardId
                THEN /\ locals' = [locals EXCEPT !.shardPos = @ + 1]
                     /\ Goto("getSupplyFromShards")
                     /\ UNCHANGED <<lookups, scQueries>>
                ELSE /\ lookups' = Append(lookups, Lookup("GetObservers", shardID))
                     /\ UNCHANGED <<locals, scQueries>>
                     /\ IF shardObservers.err # Nil
                        THEN Finish(ESDTReturn(NilResp, shardObservers.err))
                        ELSE IF shardObservers.observers = <<>>
                        THEN Finish(getShardSupplyExhausted)
                        ELSE Loop("getShardSupply", shardObservers.observers)
    /\ UNCHANGED <<config, sendVars, op, args, chain, calls, outs>>

getShardSupplyCall ==
    /\ pc = "getShardSupply"
    /\ IssueCall(networkESDTSupplyPath \o args.tokenIdentifier)
    /\ UNCHANGED <<config, sendVars, op, args, chain, locals, scQueries, answers,
                   lookups, pc, nodes, loopStart, outs, result>>

getShardSupplyAnswer ==
    /\ pc = "getShardSupply"
    /\ Blocked
    /\ \E o \in Answers : \E supply \in SupplyBodies(o) :
        LET bigValue == SetString(supply) IN
        /\ outs' = Append(outs, Answered(o, supply))
        /\ IF o.err # "nil"
           THEN /\ IF Exhausted
                   THEN Finish(getShardSupplyExhausted)
                   ELSE Continue
                /\ UNCHANGED locals
           ELSE IF supply # <<>> /\ bigValue.nil
           THEN Finish(ESDTPanic) /\ UNCHANGED locals
           ELSE /\ Goto("getSupplyFromShards")
                /\ locals' = [totalSupply |-> locals.totalSupply + bigValue.value,
                              shardPos |-> locals.shardPos + 1]
    /\ UNCHANGED <<config, sendVars, op, args, chain, scQueries, lookups, calls>>

\* supplyBig with the fourth return value read when there are five
supplyBig_FiveEntries(res) ==
    IF Len(res.ReturnData) < 5
    THEN [nil |-> FALSE, value |-> 0]
    ELSE SetString(res.ReturnData[4])

\* what getInitialSupplyFromMeta returns for the result res of the query:
\* ReturnData[4] is the source's res.ReturnData[3], sequences starting at 1
supplyBig(res) ==
    IF Len(res.ReturnData) < 4
    THEN [nil |-> FALSE, value |-> 0]
    ELSE SetString(res.ReturnData[4])

getInitialSupplyFromMeta ==
    /\ pc = "getInitialSupplyFromMeta"
    /\ \E res \in SCQueryResults :
        LET initialSupply == supplyBig(res)
        IN  /\ locals' = [totalSupply |-> locals.totalSupply,
                          shardPos |-> locals.shardPos, res |-> res]
            /\ IF res.err # Nil
               THEN Finish(ESDTReturn(NilResp, res.err))
               ELSE IF initialSupply.nil
               THEN Finish(ESDTPanic)
               ELSE Finish(ESDTReturn(
                        SupplyResponse(BigString(locals.totalSupply + initialSupply.value)),
                        Nil))
    /\ UNCHANGED <<config, sendVars, op, args, chain, scQueries, lookups, calls, outs>>

---------------------------------------------------------------------------
(* The transactions pool *)

TransactionsPoolPath == <<"/transaction/pool">>
bySenderParam == <<"&by-sender=">>
fieldsParam == <<"?fields=">>
lastNonceParam == <<"?last-nonce=true">>
nonceGapsParam == <<"?nonce-gaps=true">>

\* the fields argument of the pool requests
Fields == {"nonce"}

\* what an observer holds: its pool, its pool for a sender, the last nonce
\* and the nonce gaps of a sender
PoolOf(node) ==
    [RegularTransactions |-> <<<<"regular", node.address>>>>,
     SmartContractResults |-> <<<<"scr", node.address>>>>,
     Rewards |-> <<<<"reward", node.address>>>>]
PoolForSenderOf(node) ==
    [kind |-> "response", Transactions |-> <<<<"regular", node.address>>>>]
NonceOf(node) == <<"nonce", node.address>>
NonceGapsOf(node) == [kind |-> "response", Gaps |-> <<<<"gap", node.address>>>>]

EmptyPool ==
    [RegularTransactions |-> <<>>, SmartContractResults |-> <<>>, Rewards |-> <<>>]
EmptyPoolForSender == [kind |-> "response", Transactions |-> <<>>]
EmptyNonceGaps == [kind |-> "response", Gaps |-> <<>>]
ZeroNonce == <<"nonce", <<>>>>

\* what a pool operation returns
PoolReturn(value, err) == [value |-> value, err |-> err]

\* FromObserverOk with every answer without error taken, whatever its status
FromObserverOk_AnyStatus(o) == o.err = "nil"

\* getTxPoolFromObserver, getTxPoolForSenderFromObserver,
\* getLastTxPoolNonceFromObserver, getTxPoolNonceGapsFromObserver: ok
FromObserverOk(o) == o.err = "nil" /\ o.status = StatusOK

\* GetTransactionsPool with the flag of the processor cleared once it was read
GetTransactionsPool_FlagCleared ==
    /\ pc = "idle"
    /\ \E fields \in Fields :
        /\ op' = "GetTransactionsPool"
        /\ args' = [fields |-> fields]
    /\ IF ~shouldAllowEntireTxPoolFetch
       THEN Finish(PoolReturn(NilResp, ErrOperationNotAllowed))
            /\ UNCHANGED locals
       ELSE Goto("getTxPool")
            /\ locals' = [txs |-> EmptyPool, shardPos |-> 1]
    /\ shouldAllowEntireTxPoolFetch' = FALSE
    /\ UNCHANGED <<registry, fullHistory, env, parked, sendVars, chain, scQueries,
                   lookups, calls, outs>>

GetTransactionsPool ==
    /\ pc = "idle"
    /\ \E fields \in Fields :
        /\ op' = "GetTransactionsPool"
        /\ args' = [fields |-> fields]
    /\ IF ~shouldAllowEntireTxPoolFetch
       THEN Finish(PoolReturn(NilResp, ErrOperationNotAllowed))
            /\ UNCHANGED locals
       ELSE Goto("getTxPool")
            /\ locals' = [txs |-> EmptyPool, shardPos |-> 1]
    /\ UNCHANGED <<config, sendVars, chain, scQueries, lookups, calls, outs>>

\* AfterTxPoolForShard with the pools of a shard put before those of the
\* shards already asked
AfterTxPoolForShard_Prepended(intraShardTxs, err) ==
    /\ Goto("getTxPool")
    /\ locals' =
        [shardPos |-> locals.shardPos + 1,
         txs |-> IF err # Nil THEN locals.txs
                 ELSE [RegularTransactions |->
                           intraShardTxs.RegularTransactions
                               \o locals.txs.RegularTransactions,
                       Rewards |-> intraShardTxs.Rewards \o locals.txs.Rewards,
                       SmartContractResults |->
                           intraShardTxs.SmartContractResults
                               \o locals.txs.SmartContractResults]]

\* getTxPool once getTxPoolForShard returned for the shard at locals.shardPos
AfterTxPoolForShard(intraShardTxs, err) ==
    /\ Goto("getTxPool")
    /\ locals' =
        [shardPos |-> locals.shardPos + 1,
         txs |-> IF err # Nil THEN locals.txs
                 ELSE [RegularTransactions |->
                           locals.txs.RegularTransactions
                               \o intraShardTxs.RegularTransactions,
                       Rewards |-> locals.txs.Rewards \o intraShardTxs.Rewards,
                       SmartContractResults |->
                           locals.txs.SmartContractResults
                               \o intraShardTxs.SmartContractResults]]

\* getTxPoolForShard returns, to getTxPool or to GetTransactionsPoolForShard
ReturnTxPoolForShard(txs, err) ==
    IF op = "GetTransactionsPool"
    THEN AfterTxPoolForShard(txs, err)
    ELSE Finish(PoolReturn(IF err # Nil THEN NilResp ELSE txs, err))
         /\ UNCHANGED locals

\* getTxPoolForShard up to its first call
getTxPoolForShard(shardID) ==
    LET observers == getNodesInShard(shardID, requestTypeObservers) IN
    /\ lookups' = lookups \o observers.looked
    /\ IF observers.err # Nil
       THEN ReturnTxPoolForShard(NilResp, observers.err)
       ELSE IF observers.observers = <<>>
       THEN ReturnTxPoolForShard(NilResp, ErrTransactionsNotFoundInPool)
       ELSE Loop("getTxPoolForShard", observers.observers) /\ UNCHANGED locals

\* one iteration of the loop of getTxPool, up to the first call
getTxPool ==
    /\ pc = "getTxPool"
    /\ IF locals.shardPos > Len(GetShardIDs)
       THEN /\ Finish(PoolReturn(locals.txs, Nil))
            /\ UNCHANGED <<locals, lookups>>
       ELSE getTxPoolForShard(GetShardIDs[locals.shardPos])
    /\ UNCHANGED <<config, sendVars, op, args, chain, scQueries, calls, outs>>

GetTransactionsPoolForShard ==
    /\ pc = "idle"
    /\ \E shardID \in AllShards, fields \in Fields :
        /\ op' = "GetTransactionsPoolForShard"
        /\ args' = [shardID |-> shardID, fields |-> fields]
        /\ IF ~shouldAllowEntireTxPoolFetch
           THEN Finish(PoolReturn(NilResp, ErrOperationNotAllowed))
                /\ UNCHANGED <<locals, lookups>>
           ELSE LET observers == getNodesInShard(shardID, requestTypeObservers) IN
                /\ lookups' = lookups \o observers.looked
                /\ UNCHANGED locals
                /\ IF observers.err # Nil
                   THEN Finish(PoolReturn(NilResp, observers.err))
                   ELSE IF observers.observers = <<>>
                   THEN Finish(PoolReturn(NilResp, ErrTransactionsNotFoundInPool))
                   ELSE Loop("getTxPoolForShard", observers.observers)
    /\ UNCHANGED <<config, sendVars, chain, scQueries, calls, outs>>

getTxPoolForShardCall ==
    /\ pc = "getTxPoolForShard"
    /\ IssueCall(TransactionsPoolPath \o fieldsParam \o <<args.fields>>)
    /\ UNCHANGED <<config, sendVars, op, args, chain, locals, scQueries, answers,
                   lookups, pc, nodes, loopStart, outs, result>>

getTxPoolForShardAnswer ==
    /\ pc = "getTxPoolForShard"
    /\ Blocked
    /\ \E o \in Answers :
        /\ outs' = Append(outs, Answered(o, <<>>))
        /\ IF FromObserverOk(o)
           THEN ReturnTxPoolForShard(PoolOf(LastCall.node), Nil)
           ELSE IF Exhausted
           THEN ReturnTxPoolForShard(NilResp, ErrTransactionsNotFoundInPool)
           ELSE Continue /\ UNCHANGED locals
    /\ UNCHANGED <<config, sendVars, op, args, chain, scQueries, lookups, calls>>

\* the entry of the three pool operations for a sender: the observers of the
\* sender's shard are looked up, and the loop over them started at position p
\* or the value returned that the operation returns without a loop
PoolForSender(name, p, sender, fields, onError, onEmpty) ==
    LET observers == getShardObserversForSender(sender, requestTypeObservers) IN
    /\ op' = name
    /\ args' = [sender |-> sender, fields |-> fields]
    /\ lookups' = lookups \o observers.looked
    /\ IF observers.err # Nil
       THEN Finish(PoolReturn(onError, observers.err))
       ELSE IF observers.observers = <<>>
       THEN Finish(onEmpty)
       ELSE Loop(p, observers.observers)

GetTransactionsPoolForSender ==
    /\ pc = "idle"
    /\ \E sender \in Senders, fields \in Fields :
        PoolForSender("GetTransactionsPoolForSender", "getTxPoolForSender",
                      sender, fields, NilResp, PoolReturn(EmptyPoolForSender, Nil))
    /\ UNCHANGED <<config, sendVars, chain, locals, scQueries, calls, outs>>

getTxPoolForSenderCall ==
    /\ pc = "getTxPoolForSender"
    /\ IssueCall(TransactionsPoolPath \o fieldsParam \o <<args.fields>>
                     \o bySenderParam \o <<args.sender>>)
    /\ UNCHANGED <<config, sendVars, op, args, chain, locals, scQueries, answers,
                   lookups, pc, nodes, loopStart, outs, result>>

getTxPoolForSenderAnswer ==
    /\ pc = "getTxPoolForSender"
    /\ Blocked
    /\ \E o \in Answers :
        /\ outs' = Append(outs, Answered(o, <<>>))
        /\ IF FromObserverOk(o)
           THEN Finish(PoolReturn(PoolForSenderOf(LastCall.node), Nil))
           ELSE IF Exhausted
           THEN Finish(PoolReturn(NilResp, Nil))
           ELSE Continue
    /\ UNCHANGED <<config, sendVars, op, args, chain, locals, scQueries, lookups,
                   calls>>

GetLastPoolNonceForSender ==
    /\ pc = "idle"
    /\ \E sender \in Senders :
        PoolForSender("GetLastPoolNonceForSender", "getLastTxPoolNonceForSender",
                      sender, "", ZeroNonce,
                      PoolReturn(ZeroNonce, ErrTransactionsNotFoundInPool))
    /\ UNCHANGED <<config, sendVars, chain, locals, scQueries, calls, outs>>

getLastTxPoolNonceForSenderCall ==
    /\ pc = "getLastTxPoolNonceForSender"
    /\ IssueCall(TransactionsPoolPath \o lastNonceParam \o bySenderParam
                     \o <<args.sender>>)
    /\ UNCHANGED <<config, sendVars, op, args, chain, locals, scQueries, answers,
                   lookups, pc, nodes, loopStart, outs, result>>

getLastTxPoolNonceForSenderAnswer ==
    /\ pc = "getLastTxPoolNonceForSender"
    /\ Blocked
    /\ \E o \in Answers :
        /\ outs' = Append(outs, Answered(o, <<>>))
        /\ IF FromObserverOk(o)
           THEN Finish(PoolReturn(NonceOf(LastCall.node), Nil))
           ELSE IF Exhausted
           THEN Finish(PoolReturn(ZeroNonce, ErrTransactionsNotFoundInPool))
           ELSE Continue
    /\ UNCHANGED <<config, sendVars, op, args, chain, locals, scQueries, lookups,
                   calls>>

GetTransactionsPoolNonceGapsForSender ==
    /\ pc = "idle"
    /\ \E sender \in Senders :
        PoolForSender("GetTransactionsPoolNonceGapsForSender",
                      "getTxPoolNonceGapsForSender", sender, "", NilResp,
                      PoolReturn(EmptyNonceGaps, Nil))
    /\ UNCHANGED <<config, sendVars, chain, locals, scQueries, calls, outs>>

getTxPoolNonceGapsForSenderCall ==
    /\ pc = "getTxPoolNonceGapsForSender"
    /\ IssueCall(TransactionsPoolPath \o nonceGapsParam \o bySenderParam
                     \o <<args.sender>>)
    /\ UNCHANGED <<config, sendVars, op, args, chain, locals, scQueries, answers,
                   lookups, pc, nodes, loopStart, outs, result>>

getTxPoolNonceGapsForSenderAnswer ==
    /\ pc = "getTxPoolNonceGapsForSender"
    /\ Blocked
    /\ \E o \in Answers :
        /\ outs' = Append(outs, Answered(o, <<>>))
        /\ IF FromObserverOk(o)
           THEN Finish(PoolReturn(NonceGapsOf(LastCall.node), Nil))
           ELSE IF Exhausted
           THEN Finish(PoolReturn(NilResp, Nil))
           ELSE Continue
    /\ UNCHANGED <<config, sendVars, op, args, chain, locals, scQueries, lookups,
                   calls>>

---------------------------------------------------------------------------
(* SendMultipleTransactions *)

MultipleTransactionsPath == <<"/transaction/send-multiple">>

\* the lists of transactions given to SendMultipleTransactions
TxLists == UNION {[1..n -> SampleTransactions] : n \in 0..MaxTxs}

\* txsToSendFrom with the transactions that fail the validation kept
RECURSIVE txsToSendFrom_KeepAll(_, _)
txsToSendFrom_KeepAll(txs, j) ==
    IF j > Len(txs) THEN <<>>
    ELSE <<[tx |-> txs[j], input |-> j - 1]>> \o txsToSendFrom_KeepAll(txs, j + 1)

\* the transactions of txs from position j on that pass the validation, in
\* order; input is the position in txs (from 0) of the element pointed to
RECURSIVE txsToSendFrom(_, _)
txsToSendFrom(txs, j) ==
    IF j > Len(txs) THEN <<>>
    ELSE (IF checkTransactionFields(txs[j]) # Nil
          THEN <<>>
          ELSE <<[tx |-> txs[j], input |-> j - 1]>>) \o txsToSendFrom(txs, j + 1)

\* groupTxsByShard: the map from the sender shards to their transactions,
\* each with Index set to its position (from 0) in the list given
groupTxsByShard(txs) ==
    LET indexed == [i \in 1..Len(txs) |->
                       [tx |-> txs[i].tx, input |-> txs[i].input, Index |-> i - 1]]
        senderShardID(e) == ComputeShardId(Decode(e.tx.Sender).bytes)
        grouped(e) == Decode(e.tx.Sender).err = Nil /\ senderShardID(e).err = Nil
        group(shard) ==
            SelectSeq(indexed, LAMBDA e : grouped(e) /\ senderShardID(e).shard = shard)
    IN  [shard \in {sh \in WorkerShards : group(sh) # <<>>} |-> group(shard)]

\* data.MultipleTransactionsResponseData
MultipleTransactionsResponseData(numOfTxs, txsHashes) ==
    [NumOfTxs |-> numOfTxs, TxsHashes |-> txsHashes]

EmptyMultipleTransactionsResponseData == MultipleTransactionsResponseData(0, <<>>)

\* MultiReturn with the request failing when no transaction was sent
MultiReturn_FailsWhenNoneSent(response, err) ==
    [response |-> response,
     err |-> IF err = Nil /\ response.NumOfTxs = 0 THEN ErrSendingRequest ELSE err]

\* what SendMultipleTransactions returns
MultiReturn(response, err) == [response |-> response, err |-> err]

\* the response of an observer that accepts a group: every transaction of it
BatchResponseOf(node, groupOfTxs) ==
    MultipleTransactionsResponseData(
        Len(groupOfTxs),
        [key \in 0..(Len(groupOfTxs) - 1) |-> <<"txHash", node.address, key>>])

\* the response of an observer that accepts a group but for its last
\* transaction
PartialBatchResponseOf(node, groupOfTxs) ==
    MultipleTransactionsResponseData(
        Len(groupOfTxs) - 1,
        [key \in 0..(Len(groupOfTxs) - 2) |-> <<"txHash", node.address, key>>])

\* the responses an observer may give to a group
BatchResponsesOf(node, groupOfTxs) ==
    {BatchResponseOf(node, groupOfTxs), PartialBatchResponseOf(node, groupOfTxs)}

\* SendMultipleTransactions with no observers for a shard, with the groups
\* accepted so far reported
MissingObserver_Partial(totalTxsSent, txsHashes) ==
    MultiReturn(MultipleTransactionsResponseData(totalTxsSent, txsHashes),
                ErrMissingObserver)

\* SendMultipleTransactions with no observers for a shard
MissingObserver(totalTxsSent, txsHashes) ==
    MultiReturn(EmptyMultipleTransactionsResponseData, ErrMissingObserver)

\* WithHashes with every hash stored under its key in the response
WithHashes_ByKey(txsHashes, groupOfTxs, response) ==
    [i \in DOMAIN txsHashes \cup DOMAIN response.TxsHashes |->
        IF i \in DOMAIN response.TxsHashes
        THEN response.TxsHashes[i]
        ELSE txsHashes[i]]

\* txsHashes after txsHashes[groupOfTxs[key].Index] = hash for every key of
\* the response
WithHashes(txsHashes, groupOfTxs, response) ==
    LET indexOf(key) == groupOfTxs[key + 1].Index
        indices == {indexOf(key) : key \in DOMAIN response.TxsHashes}
    IN  [i \in DOMAIN txsHashes \cup indices |->
            IF i \in indices
            THEN response.TxsHashes[
                     CHOOSE key \in DOMAIN response.TxsHashes : indexOf(key) = i]
            ELSE txsHashes[i]]

SendMultipleTransactions ==
    /\ pc = "idle"
    /\ \E txs \in TxLists :
        LET txsToSend == txsToSendFrom(txs, 1) IN
        /\ op' = "SendMultipleTransactions"
        /\ args' = [txs |-> txs]
        /\ IF Len(txsToSend) = 0
           THEN Finish(MultiReturn(EmptyMultipleTransactionsResponseData,
                                   ErrNoValidTransactionToSend))
                /\ UNCHANGED locals
           ELSE /\ Goto("SendMultipleTransactions.groups")
                /\ locals' = [txsByShardID |-> groupTxsByShard(txsToSend),
                              left |-> DOMAIN groupTxsByShard(txsToSend),
                              shardID |-> 0,
                              totalTxsSent |-> 0,
                              txsHashes |-> <<>>,
                              posted |-> <<>>]
    /\ UNCHANGED <<config, sendVars, chain, scQueries, lookups, calls, outs>>

\* one iteration of the loop over the groups, in the order the map yields
\* them, up to the first call
SendMultipleTransactionsGroup ==
    /\ pc = "SendMultipleTransactions.groups"
    /\ IF locals.left = {}
       THEN /\ Finish(MultiReturn(
                   MultipleTransactionsResponseData(locals.totalTxsSent,
                                                    locals.txsHashes),
                   Nil))
            /\ UNCHANGED <<locals, lookups>>
       ELSE \E shardID \in locals.left :
            LET observersInShard == GetObservers(shardID) IN
            /\ lookups' = Append(lookups, Lookup("GetObservers", shardID))
            /\ locals' = [locals EXCEPT !.left = @ \ {shardID}, !.shardID = shardID]
            /\ IF observersInShard.err # Nil
               THEN Finish(MissingObserver(locals.totalTxsSent, locals.txsHashes))
               ELSE IF observersInShard.observers = <<>>
               THEN Goto("SendMultipleTransactions.groups")
               ELSE Loop("SendMultipleTransactions", observersInShard.observers)
    /\ UNCHANGED <<config, sendVars, op, args, chain, scQueries, calls, outs>>

SendMultipleTransactionsCall ==
    /\ pc = "SendMultipleTransactions"
    /\ IssueCall(MultipleTransactionsPath)
    /\ locals' = [locals EXCEPT
                      !.posted = Append(@, locals.txsByShardID[locals.shardID])]
    /\ UNCHANGED <<config, sendVars, op, args, chain, scQueries, answers,
                   lookups, pc, nodes, loopStart, outs, result>>

SendMultipleTransactionsAnswer ==
    /\ pc = "SendMultipleTransactions"
    /\ Blocked
    /\ \E o \in Answers :
        LET groupOfTxs == locals.txsByShardID[locals.shardID] IN
        \E txResponse \in BatchResponsesOf(LastCall.node, groupOfTxs) :
            IF o.status = StatusOK /\ o.err = "nil"
            THEN /\ outs' = Append(outs, Answered(o, txResponse))
                 /\ locals' =
                       [locals EXCEPT
                           !.totalTxsSent = @ + txResponse.NumOfTxs,
                           !.txsHashes = WithHashes(@, groupOfTxs, txResponse)]
                 /\ Goto("SendMultipleTransactions.groups")
            ELSE /\ outs' = Append(outs, Answered(o, <<>>))
                 /\ UNCHANGED locals
                 /\ IF Exhausted
                    THEN Goto("SendMultipleTransactions.groups")
                    ELSE Continue
    /\ UNCHANGED <<config, sendVars, op, args, chain, scQueries, lookups, calls>>

---------------------------------------------------------------------------
(* GetTransaction, GetTransactionByHashAndSenderAddress, GetTransactionStatus *)

TransactionPath == <<"/transaction/">>
withResultsParam == <<"?withResults=true">>
UnknownStatusTx == "unknown"

\* the hash asked for
TxHashes == {"h"}

\* a smart contract result as the nodes of one shard hold it
Scr(hash, copy) ==
    [Hash |-> hash, Logs |-> <<"logs", hash, copy>>, Data |-> <<"data", hash, copy>>]

\* the hashes of the smart contract results
ScrHashes == {"r", "q"}

\* the lists of smart contract results a shard may hold, a hash more than
\* once included
ScrLists(copy) ==
    UNION {{[i \in 1..n |-> Scr(hs[i], <<copy, i>>)] : hs \in [1..n -> ScrHashes]} :
               n \in 0..MaxScrs}

\* the smart contract results of a transaction as the source shard and as
\* the destination shard hold them
ScrPairs ==
    IF env = "merge"
    THEN [source : ScrLists("source"), destination : ScrLists("destination")]
    ELSE {[source |-> <<>>, destination |-> <<>>],
          [source |-> <<Scr("r", "source")>>,
           destination |-> <<Scr("r", "destination")>>]}

\* the transaction the observers hold: its sender and receiver, and its smart
\* contract results as the source shard and as the destination shard hold them
ChainTransactions ==
    [Sender : {"a0", "a1", metachainIDStr}, Receiver : {"a0", "a1"},
     scrs : ScrPairs]

\* the chain transaction an answer may carry: the one an earlier answer of
\* this request carried, when there is one
Carried == IF chain = NoChain THEN ChainTransactions ELSE {chain}

\* the transaction.ApiTransactionResult decoded from the answer of node, the
\* chain transaction being c
TxOf(node, c) ==
    [Sender |-> c.Sender,
     Receiver |-> c.Receiver,
     SourceShard |-> getShardByAddress(c.Sender).shard,
     Status |-> <<"status", node.address>>,
     SmartContractResults |->
         IF node.shard = getShardByAddress(c.Receiver).shard
         THEN c.scrs.destination
         ELSE c.scrs.source,
     NotarizedAtDestinationInMetaNonce |-> <<"metaNonce", node.address>>,
     NotarizedAtDestinationInMetaHash |-> <<"metaHash", node.address>>,
     HyperblockNonce |-> <<>>,
     HyperblockHash |-> <<>>,
     node |-> node]

NilTx == [kind |-> "nil"]

\* mergeLogsHandler.MergeLogEvents
MergeLogEvents(logsSource, logsDestination) ==
    <<"merged", logsSource, logsDestination>>

\* the map built by the first loop of getScResultsUnion
RECURSIVE scResultsHash(_)
scResultsHash(scResults) ==
    IF scResults = <<>> THEN <<>>
    ELSE LET before == scResultsHash(SubSeq(scResults, 1, Len(scResults) - 1))
             scResult == scResults[Len(scResults)]
             found == \E i \in DOMAIN before : before[i].Hash = scResult.Hash
             at == CHOOSE i \in DOMAIN before : before[i].Hash = scResult.Hash
         IN  IF ~found
             THEN Append(before, scResult)
             ELSE [before EXCEPT
                      ![at] = [scResult EXCEPT
                                  !.Logs = MergeLogEvents(before[at].Logs,
                                                          scResult.Logs)]]

\* getScResultsUnion with the list returned as it is given
getScResultsUnion_NoUnion(scResults) == {scResults}

\* getScResultsUnion: the slices it may return, the values of the map in the
\* order the map yields them
getScResultsUnion(scResults) ==
    LET byHash == scResultsHash(scResults)
        n == Len(byHash)
    IN  {[i \in 1..n |-> byHash[order[i]]] :
            order \in {f \in [1..n -> 1..n] : \A i, j \in 1..n : f[i] = f[j] => i = j}}

\* mergeScResultsFromSourceAndDestIfNeeded with the results of the
\* destination put before those of the source
mergeScResultsFromSourceAndDestIfNeeded_DestFirst(sourceTx, destTx, withEvents) ==
    IF ~withEvents
    THEN {destTx}
    ELSE {[destTx EXCEPT !.SmartContractResults = scResultsNew] :
             scResultsNew \in getScResultsUnion(
                 destTx.SmartContractResults \o sourceTx.SmartContractResults)}

\* mergeScResultsFromSourceAndDestIfNeeded with the copy of the source shard
\* altered and returned
mergeScResultsFromSourceAndDestIfNeeded_IntoSource(sourceTx, destTx, withEvents) ==
    IF ~withEvents
    THEN {sourceTx}
    ELSE {[sourceTx EXCEPT !.SmartContractResults = scResultsNew] :
             scResultsNew \in getScResultsUnion(
                 sourceTx.SmartContractResults \o destTx.SmartContractResults)}

\* mergeScResultsFromSourceAndDestIfNeeded: the transactions it may return
mergeScResultsFromSourceAndDestIfNeeded(sourceTx, destTx, withEvents) ==
    IF ~withEvents
    THEN {destTx}
    ELSE {[destTx EXCEPT !.SmartContractResults = scResultsNew] :
             scResultsNew \in getScResultsUnion(
                 sourceTx.SmartContractResults \o destTx.SmartContractResults)}

\* getTxFromObserver with an error of the call not reported as an HTTP error
getTxFromObserver_NoHttpError(o) ==
    [ok |-> o.err = "nil" /\ o.status = StatusOK, withHttpError |-> FALSE]

\* getTxFromObserver with an answer of another status than 200 reported as an
\* HTTP error
getTxFromObserver_NonOkIsHttpError(o) ==
    IF o.err # "nil" \/ o.status # StatusOK
    THEN [ok |-> FALSE, withHttpError |-> TRUE]
    ELSE [ok |-> TRUE, withHttpError |-> FALSE]

\* getTxFromObserver: ok and withHttpError
getTxFromObserver(o) ==
    IF o.err # "nil" THEN [ok |-> FALSE, withHttpError |-> TRUE]
    ELSE IF o.status # StatusOK THEN [ok |-> FALSE, withHttpError |-> FALSE]
    ELSE [ok |-> TRUE, withHttpError |-> FALSE]

\* the path of a transaction request
TransactionApiPath(txHash, withResults) ==
    IF withResults
    THEN TransactionPath \o <<txHash>> \o withResultsParam
    ELSE TransactionPath \o <<txHash>>

\* what the three operations return
TxReturn(value, code, err) == [value |-> value, code |-> code, err |-> err]

\* ReturnTxTo with GetTransaction returning the transaction as it was obtained
ReturnTxTo_NoPromotion(name, sender, transaction, err) ==
    IF name = "GetTransaction"
    THEN IF err # Nil
         THEN Finish(TxReturn(NilTx, 0, err))
         ELSE Finish(TxReturn(transaction, 0, Nil))
    ELSE IF name = "GetTransactionByHashAndSenderAddress"
    THEN IF err # Nil
         THEN Finish(TxReturn(NilTx, StatusNotFound, err))
         ELSE Finish(TxReturn(transaction, StatusOK, Nil))
    ELSE IF err # Nil
         THEN Finish(TxReturn(UnknownStatusTx, 0,
                              IF sender # "" THEN err ELSE ErrTransactionNotFound))
         ELSE Finish(TxReturn(transaction.Status, 0, Nil))

\* ReturnTxTo with GetTransactionStatus returning the error of the lookup
\* whether a sender was given or not
ReturnTxTo_ErrPassed(name, sender, transaction, err) ==
    IF name = "GetTransaction"
    THEN IF err # Nil
         THEN Finish(TxReturn(NilTx, 0, err))
         ELSE Finish(TxReturn(
                  [transaction EXCEPT
                      !.HyperblockNonce = transaction.NotarizedAtDestinationInMetaNonce,
                      !.HyperblockHash = transaction.NotarizedAtDestinationInMetaHash],
                  0, Nil))
    ELSE IF name = "GetTransactionByHashAndSenderAddress"
    THEN IF err # Nil
         THEN Finish(TxReturn(NilTx, StatusNotFound, err))
         ELSE Finish(TxReturn(transaction, StatusOK, Nil))
    ELSE IF err # Nil
         THEN Finish(TxReturn(UnknownStatusTx, 0, err))
         ELSE Finish(TxReturn(transaction.Status, 0, Nil))

\* getTxFromObservers or getTxWithSenderAddr returns (transaction, err) to the
\* operation name, given the sender, which returns
ReturnTxTo(name, sender, transaction, err) ==
    IF name = "GetTransaction"
    THEN IF err # Nil
         THEN Finish(TxReturn(NilTx, 0, err))
         ELSE Finish(TxReturn(
                  [transaction EXCEPT
                      !.HyperblockNonce = transaction.NotarizedAtDestinationInMetaNonce,
                      !.HyperblockHash = transaction.NotarizedAtDestinationInMetaHash],
                  0, Nil))
    ELSE IF name = "GetTransactionByHashAndSenderAddress"
    THEN IF err # Nil
         THEN Finish(TxReturn(NilTx, StatusNotFound, err))
         ELSE Finish(TxReturn(transaction, StatusOK, Nil))
    ELSE IF err # Nil
         THEN Finish(TxReturn(UnknownStatusTx, 0,
                              IF sender # "" THEN err ELSE ErrTransactionNotFound))
         ELSE Finish(TxReturn(transaction.Status, 0, Nil))

ReturnTx(transaction, err) == ReturnTxTo(op, args.sender, transaction, err)

\* getTxFromDestShard with a failure of GetObservers returned as the error of
\* the operation
getTxFromDestShard_LookupErr(sourceTx, dstShardID) ==
    LET destinationShardObservers == GetObservers(dstShardID) IN
    /\ lookups' = Append(lookups, Lookup("GetObservers", dstShardID))
    /\ IF destinationShardObservers.err # Nil
       THEN ReturnTx(NilTx, destinationShardObservers.err) /\ UNCHANGED locals
       ELSE IF destinationShardObservers.observers = <<>>
       THEN ReturnTx(sourceTx, Nil) /\ UNCHANGED locals
       ELSE /\ Loop("getTxFromDestShard", destinationShardObservers.observers)
            /\ locals' = [locals EXCEPT !.tx = sourceTx]

\* getTxFromDestShard up to its first call, sourceTx being the copy obtained
getTxFromDestShard(sourceTx, dstShardID) ==
    LET destinationShardObservers == GetObservers(dstShardID) IN
    /\ lookups' = Append(lookups, Lookup("GetObservers", dstShardID))
    /\ IF destinationShardObservers.err # Nil
          \/ destinationShardObservers.observers = <<>>
       THEN ReturnTx(sourceTx, Nil) /\ UNCHANGED locals
       ELSE /\ Loop("getTxFromDestShard", destinationShardObservers.observers)
            /\ locals' = [locals EXCEPT !.tx = sourceTx]

\* alterTxWithScResultsFromSourceIfNeeded with the source shard asked whether
\* or not the transaction has smart contract results
alterTxWithScResultsFromSourceIfNeeded_NoScrCheck(transaction, withResults) ==
    LET observers == getNodesInShard(transaction.SourceShard,
                                     requestTypeFullHistoryNodes)
    IN  IF ~withResults
        THEN ReturnTx(transaction, Nil) /\ UNCHANGED <<locals, lookups>>
        ELSE /\ lookups' = lookups \o observers.looked
             /\ IF observers.err # Nil \/ observers.observers = <<>>
                THEN ReturnTx(transaction, Nil) /\ UNCHANGED locals
                ELSE /\ Loop("alterTxWithScResultsFromSourceIfNeeded",
                             observers.observers)
                     /\ locals' = [locals EXCEPT !.tx = transaction]

\* alterTxWithScResultsFromSourceIfNeeded up to its first call
alterTxWithScResultsFromSourceIfNeeded(transaction, withResults) ==
    LET observers == getNodesInShard(transaction.SourceShard,
                                     requestTypeFullHistoryNodes)
    IN  IF ~withResults \/ Len(transaction.SmartContractResults) = 0
        THEN ReturnTx(transaction, Nil) /\ UNCHANGED <<locals, lookups>>
        ELSE /\ lookups' = lookups \o observers.looked
             /\ IF observers.err # Nil \/ observers.observers = <<>>
                THEN ReturnTx(transaction, Nil) /\ UNCHANGED locals
                ELSE /\ Loop("alterTxWithScResultsFromSourceIfNeeded",
                             observers.observers)
                     /\ locals' = [locals EXCEPT !.tx = transaction]

\* GetTransactionRequestType with the request type following withResults
GetTransactionRequestType_ByResults(withResults) ==
    IF withResults THEN requestTypeFullHistoryNodes ELSE requestTypeObservers

\* the request type GetTransaction gives to getTxFromObservers
GetTransactionRequestType(withResults) == requestTypeFullHistoryNodes

GetTransaction ==
    /\ pc = "idle"
    /\ \E txHash \in TxHashes, withResults \in BOOLEAN :
        /\ op' = "GetTransaction"
        /\ args' = [txHash |-> txHash, sender |-> "", withResults |-> withResults]
        /\ locals' = [shardPos |-> 1, reqType |-> GetTransactionRequestType(withResults),
                      withResults |-> withResults, sndShardID |-> 0, tx |-> NilTx]
    /\ Goto("getTxFromObservers")
    /\ UNCHANGED <<config, sendVars, chain, scQueries, lookups, calls, outs>>

\* the senders GetTransactionStatus and GetTransactionByHashAndSenderAddress
\* may be given
SenderHints == {"a0", "a1", "bad", metachainIDStr}

\* getTxWithSenderAddr up to its first call, for the operation name
getTxWithSenderAddr(name, sender) ==
    LET observers == getShardObserversForSender(sender, requestTypeFullHistoryNodes)
    IN  /\ lookups' = lookups \o observers.looked
        /\ IF observers.err # Nil
           THEN ReturnTxTo(name, sender, NilTx, observers.err)
           ELSE IF observers.observers = <<>>
           THEN ReturnTxTo(name, sender, NilTx, ErrTransactionNotFound)
           ELSE Loop("getTxWithSenderAddr", observers.observers)

GetTransactionByHashAndSenderAddress ==
    /\ pc = "idle"
    /\ \E txHash \in TxHashes, sndAddr \in SenderHints, withEvents \in BOOLEAN :
        /\ op' = "GetTransactionByHashAndSenderAddress"
        /\ args' = [txHash |-> txHash, sender |-> sndAddr, withResults |-> withEvents]
        /\ locals' = [shardPos |-> 0, reqType |-> requestTypeFullHistoryNodes,
                      withResults |-> withEvents,
                      sndShardID |-> getShardByAddress(sndAddr).shard, tx |-> NilTx]
        /\ getTxWithSenderAddr("GetTransactionByHashAndSenderAddress", sndAddr)
    /\ UNCHANGED <<config, sendVars, chain, scQueries, calls, outs>>

GetTransactionStatus ==
    /\ pc = "idle"
    /\ \E txHash \in TxHashes, sender \in SenderHints \cup {""} :
        /\ op' = "GetTransactionStatus"
        /\ args' = [txHash |-> txHash, sender |-> sender, withResults |-> FALSE]
        /\ IF sender # ""
           THEN /\ locals' = [shardPos |-> 0, reqType |-> requestTypeFullHistoryNodes,
                              withResults |-> FALSE,
                              sndShardID |-> getShardByAddress(sender).shard,
                              tx |-> NilTx]
                /\ getTxWithSenderAddr("GetTransactionStatus", sender)
           ELSE /\ locals' = [shardPos |-> 1, reqType |-> requestTypeObservers,
                              withResults |-> FALSE, sndShardID |-> 0, tx |-> NilTx]
                /\ Goto("getTxFromObservers")
                /\ UNCHANGED lookups
    /\ UNCHANGED <<config, sendVars, chain, scQueries, calls, outs>>

\* one iteration of the loop of getTxFromObservers over the shards, up to the
\* first call
getTxFromObservers ==
    /\ pc = "getTxFromObservers"
    /\ IF locals.shardPos > Len(GetShardIDs)
       THEN ReturnTx(NilTx, ErrTransactionNotFound) /\ UNCHANGED <<locals, lookups>>
       ELSE LET nodesInShard == getNodesInShard(GetShardIDs[locals.shardPos],
                                                locals.reqType)
            IN  /\ lookups' = lookups \o nodesInShard.looked
                /\ IF nodesInShard.err # Nil
                   THEN ReturnTx(NilTx, nodesInShard.err) /\ UNCHANGED locals
                   ELSE IF nodesInShard.observers = <<>>
                   THEN /\ Goto("getTxFromObservers")
                        /\ locals' = [locals EXCEPT !.shardPos = @ + 1]
                   ELSE /\ Loop("getTxFromObserver", nodesInShard.observers)
                        /\ UNCHANGED locals
    /\ UNCHANGED <<config, sendVars, op, args, chain, scQueries, calls, outs>>

\* the call of getTxFromObserver and of getTxFromDestShard
getTxFromObserverCall ==
    /\ pc \in {"getTxFromObserver", "alterTxWithScResultsFromSourceIfNeeded",
               "getTxWithSenderAddr", "getTxFromDestShard"}
    /\ IssueCall(TransactionApiPath(args.txHash, locals.withResults))
    /\ UNCHANGED <<config, sendVars, op, args, chain, locals, scQueries, answers,
                   lookups, pc, nodes, loopStart, outs, result>>

\* getTxFromObservers once a node of the shard at locals.shardPos answered
getTxFromObserverAnswer ==
    /\ pc = "getTxFromObserver"
    /\ Blocked
    /\ \E o \in Answers : \E c \in Carried :
        LET r == getTxFromObserver(o)
            transaction == TxOf(LastCall.node, c)
            observerShardID == GetShardIDs[locals.shardPos]
            sndShardID == getShardByAddress(transaction.Sender).shard
            rcvShardID == getShardByAddress(transaction.Receiver).shard
        IN  IF r.ok
            THEN /\ outs' = Append(outs, Answered(o, transaction))
                 /\ chain' = c
                 /\ IF sndShardID = rcvShardID
                    THEN ReturnTx(transaction, Nil) /\ UNCHANGED <<locals, lookups>>
                    ELSE IF rcvShardID = observerShardID
                    THEN alterTxWithScResultsFromSourceIfNeeded(transaction,
                                                               locals.withResults)
                    ELSE getTxFromDestShard(transaction, rcvShardID)
            ELSE /\ outs' = Append(outs, Answered(o, <<>>))
                 /\ UNCHANGED <<chain, lookups>>
                 /\ IF r.withHttpError /\ ~Exhausted
                    THEN Continue /\ UNCHANGED locals
                    ELSE /\ Goto("getTxFromObservers")
                         /\ locals' = [locals EXCEPT !.shardPos = @ + 1]
    /\ UNCHANGED <<config, sendVars, op, args, scQueries, calls>>

\* alterTxWithScResultsFromSourceIfNeeded once a node of the source shard
\* answered, locals.tx being the copy of the destination shard
alterTxWithScResultsFromSourceIfNeededAnswer ==
    /\ pc = "alterTxWithScResultsFromSourceIfNeeded"
    /\ Blocked
    /\ \E o \in Answers :
        LET r == getTxFromObserver(o)
            transaction == TxOf(LastCall.node, chain)
        IN  IF r.ok
            THEN /\ outs' = Append(outs, Answered(o, transaction))
                 /\ \E alteredTxFromDest \in
                        mergeScResultsFromSourceAndDestIfNeeded(
                            transaction, locals.tx, locals.withResults) :
                        ReturnTx(alteredTxFromDest, Nil)
            ELSE /\ outs' = Append(outs, Answered(o, <<>>))
                 /\ IF Exhausted THEN ReturnTx(locals.tx, Nil) ELSE Continue
    /\ UNCHANGED <<config, sendVars, op, args, chain, locals, scQueries, lookups,
                   calls>>

\* getTxWithSenderAddr once a node of the sender's shard answered
getTxWithSenderAddrAnswer ==
    /\ pc = "getTxWithSenderAddr"
    /\ Blocked
    /\ \E o \in Answers : \E c \in Carried :
        LET r == getTxFromObserver(o)
            transaction == TxOf(LastCall.node, c)
            rcvShardID == getShardByAddress(transaction.Receiver).shard
        IN  IF r.ok
            THEN /\ outs' = Append(outs, Answered(o, transaction))
                 /\ chain' = c
                 /\ IF rcvShardID = locals.sndShardID
                    THEN ReturnTx(transaction, Nil) /\ UNCHANGED <<locals, lookups>>
                    ELSE getTxFromDestShard(transaction, rcvShardID)
            ELSE /\ outs' = Append(outs, Answered(o, <<>>))
                 /\ UNCHANGED <<chain, locals, lookups>>
                 /\ IF Exhausted
                    THEN ReturnTx(NilTx, ErrTransactionNotFound)
                    ELSE Continue
    /\ UNCHANGED <<config, sendVars, op, args, scQueries, calls>>

\* getTxFromDestShard once an observer of the destination shard answered,
\* locals.tx being the copy obtained before
getTxFromDestShardAnswer ==
    /\ pc = "getTxFromDestShard"
    /\ Blocked
    /\ \E o \in Answers :
        LET txFromDstShard == TxOf(LastCall.node, chain) IN
        IF o.err = "nil" /\ o.status = StatusOK
        THEN /\ outs' = Append(outs, Answered(o, txFromDstShard))
             /\ \E alteredTxFromDest \in
                    mergeScResultsFromSourceAndDestIfNeeded(
                        locals.tx, txFromDstShard, locals.withResults) :
                    ReturnTx(alteredTxFromDest, Nil)
        ELSE /\ outs' = Append(outs, Answered(o, <<>>))
             /\ IF Exhausted THEN ReturnTx(locals.tx, Nil) ELSE Continue
    /\ UNCHANGED <<config, sendVars, op, args, chain, locals, scQueries, lookups,
                   calls>>

---------------------------------------------------------------------------
(* ComputeTransactionHash *)

ErrInvalidTransactionValueField == [kind |-> "ErrInvalidTransactionValueField"]
ErrInvalidAddress == [kind |-> "ErrInvalidAddress"]
ErrInvalidSignatureBytes == [kind |-> "ErrInvalidSignatureBytes"]

\* the Value fields of the transactions to hash: strings of characters
Values == {<<>>, <<"7">>, <<"1", "0">>, <<"x">>}

\* the transactions given to ComputeTransactionHash
HashTransactions ==
    [Sender : Addresses, Receiver : Addresses, ChainID : {"T"}, Version : {1},
     Signature : Signatures, Value : Values]

\* what core.CalculateHash may return for regularTx: the hash, or the error of
\* the marshalizer
ErrMarshal == [kind |-> "marshal"]

CalculateHash(regularTx) ==
    {[err |-> Nil, txHash |-> <<"hash", regularTx>>],
     [err |-> ErrMarshal, txHash |-> <<>>]}

\* hex.EncodeToString
EncodeToString(bytes) == <<"hex", bytes>>

\* the transaction.Transaction built from t
RegularTx(t) ==
    [Value |-> SetString(t.Value).value,
     RcvAddr |-> Decode(t.Receiver).bytes,
     SndAddr |-> Decode(t.Sender).bytes,
     ChainID |-> t.ChainID,
     Version |-> t.Version,
     Signature |-> <<"bytes", t.Signature>>]

\* what ComputeTransactionHash returns: a hash and an error
HashReturn(txHash, err) == [hash |-> txHash, err |-> err]

\* ComputeTransactionHash with the signature decoded before the addresses
ComputeTransactionHash_SignatureFirst(t, calculated) ==
    IF SetString(t.Value).nil
    THEN HashReturn(NoHash, ErrInvalidTransactionValueField)
    ELSE IF HexDecodeString(t.Signature) # Nil
    THEN HashReturn(NoHash, ErrInvalidSignatureBytes)
    ELSE IF Decode(t.Receiver).err # Nil
    THEN HashReturn(NoHash, ErrInvalidAddress)
    ELSE IF Decode(t.Sender).err # Nil
    THEN HashReturn(NoHash, ErrInvalidAddress)
    ELSE IF calculated.err # Nil
    THEN HashReturn(NoHash, Nil)
    ELSE HashReturn(EncodeToString(calculated.txHash), Nil)

\* ComputeTransactionHash for the transaction t, calculated being what
\* core.CalculateHash returns
ComputeTransactionHash(t, calculated) ==
    IF SetString(t.Value).nil
    THEN HashReturn(NoHash, ErrInvalidTransactionValueField)
    ELSE IF Decode(t.Receiver).err # Nil
    THEN HashReturn(NoHash, ErrInvalidAddress)
    ELSE IF Decode(t.Sender).err # Nil
    THEN HashReturn(NoHash, ErrInvalidAddress)
    ELSE IF HexDecodeString(t.Signature) # Nil
    THEN HashReturn(NoHash, ErrInvalidSignatureBytes)
    ELSE IF calculated.err # Nil
    THEN HashReturn(NoHash, Nil)
    ELSE HashReturn(EncodeToString(calculated.txHash), Nil)

\* a request for the hash of a transaction is served
ComputeTransactionHashRequest ==
    /\ pc = "idle"
    /\ \E t \in HashTransactions : \E calculated \in CalculateHash(RegularTx(t)) :
        /\ op' = "ComputeTransactionHash"
        /\ tx' = t
        /\ locals' = [calculated |-> calculated]
        /\ Finish(ComputeTransactionHash(t, calculated))
    /\ UNCHANGED <<config, checkSig, senderResp, args, chain, scQueries, lookups,
                   calls, outs>>

---------------------------------------------------------------------------
(* The node-status processor *)

\* the operations that return the envelope of the first observer that answers
NodeStatusOps ==
    {"GetNetworkConfigMetrics", "GetNetworkStatusMetrics", "GetAllIssuedESDTs",
     "GetDelegatedInfo", "GetDirectStakedInfo"}

\* proc.GetAllObservers: the observers of all shards, in the order of the
\* shards; it fails when no list of observers can be obtained
GetAllObservers ==
    LET of(shard) == IF registry[shard] < 0 THEN <<>> ELSE GetObservers(shard).observers
    IN  IF \A shard \in AllShards : registry[shard] < 0
        THEN [err |-> ErrNoObserversForShard, observers |-> <<>>]
        ELSE [err |-> Nil,
              observers |-> of(GetShardIDs[1]) \o of(GetShardIDs[2]) \o of(GetShardIDs[3])]

\* the observers an operation turns to and the registry lookup it makes: any
\* observer for the configuration, those of the shard asked for the status,
\* those of the metachain for the others
StatusObservers(name, shardID) ==
    IF name = "GetNetworkConfigMetrics"
    THEN [err |-> GetAllObservers.err, observers |-> GetAllObservers.observers,
          looked |-> Lookup("GetAllObservers", MetachainShardId)]
    ELSE IF name = "GetNetworkStatusMetrics"
    THEN [err |-> GetObservers(shardID).err,
          observers |-> GetObservers(shardID).observers,
          looked |-> Lookup("GetObservers", shardID)]
    ELSE [err |-> GetObservers(MetachainShardId).err,
          observers |-> GetObservers(MetachainShardId).observers,
          looked |-> Lookup("GetObservers", MetachainShardId)]

\* the path of the request of an operation
NodeStatusPath(name) == <<"/network/", name>>

\* the data.GenericAPIResponse decoded from the answer of node
GenericAPIResponseOf(node) == [Data |-> <<"data", node.address>>]

\* what the operations return: a response and an error
StatusReturn(response, err) == [response |-> response, err |-> err]

\* a call has succeeded: it returned no error, whatever the status
StatusCallOk(o) == o.err = "nil"

\* what an operation returns when no observer is left
StatusExhausted_EmptyResponse == StatusReturn([Data |-> <<>>], Nil)

StatusExhausted == StatusReturn(NilResp, ErrSendingRequest)

\* one of the operations is asked for, up to its first call
NodeStatusRequest ==
    /\ pc = "idle"
    /\ \E name \in NodeStatusOps :
       \E shardID \in IF name = "GetNetworkStatusMetrics"
                      THEN AllShards ELSE {MetachainShardId} :
        LET observers == StatusObservers(name, shardID) IN
        /\ op' = name
        /\ args' = [shardID |-> shardID]
        /\ lookups' = Append(lookups, observers.looked)
        /\ IF observers.err # Nil
           THEN Finish(StatusReturn(NilResp, observers.err))
           ELSE IF observers.observers = <<>>
           THEN Finish(StatusExhausted)
           ELSE Loop("NodeStatus", observers.observers)
    /\ UNCHANGED <<config, sendVars, chain, locals, scQueries, calls, outs>>

NodeStatusCall ==
    /\ pc = "NodeStatus"
    /\ IssueCall(NodeStatusPath(op))
    /\ UNCHANGED <<config, sendVars, op, args, chain, locals, scQueries, answers,
                   lookups, pc, nodes, loopStart, outs, result>>

NodeStatusAnswer ==
    /\ pc = "NodeStatus"
    /\ Blocked
    /\ \E o \in Answers :
        LET response == GenericAPIResponseOf(LastCall.node) IN
        IF StatusCallOk(o)
        THEN /\ outs' = Append(outs, Answered(o, response))
             /\ Finish(StatusReturn(response, Nil))
        ELSE /\ outs' = Append(outs, Answered(o, <<>>))
             /\ IF Exhausted THEN Finish(StatusExhausted) ELSE Continue
    /\ UNCHANGED <<config, sendVars, op, args, chain, locals, scQueries, lookups,
                   calls>>

\* the metrics in the status of a node.  An observer of a worker shard
\* reports the nonce of its shard and, as erd_cross_check_block_height, the
\* metachain height it has processed ("meta 123"); an observer of the
\* metachain reports its nonce and the heights of the shards it has notarized
ShardNonces == {99, 100}
MetaNonces == {122}
CrossCheckOfShard == {<<"meta", 121>>, <<"meta", 123>>}
CrossCheckOfMeta == {<<98, 95>>}

StatusMetricsOf(node) ==
    IF node.shard = MetachainShardId
    THEN [erd_nonce : MetaNonces, erd_cross_check_block_height : CrossCheckOfMeta]
    ELSE [erd_nonce : ShardNonces, erd_cross_check_block_height : CrossCheckOfShard]

\* NonceFromStatus with the nonce of the node read for every shard
NonceFromStatus_ShardNonce(shardID, metrics) == metrics.erd_nonce

\* the value collected for a shard from the status of one of its observers:
\* the height in the cross-check metric of a worker shard, the nonce of the
\* metachain
NonceFromStatus(shardID, metrics) ==
    IF shardID = MetachainShardId
    THEN metrics.erd_nonce
    ELSE metrics.erd_cross_check_block_height[2]

\* MinNonce with the value of the first shard returned
MinNonce_First(nonces) == nonces[1]

\* the least of the values collected
MinNonce(nonces) ==
    CHOOSE n \in {nonces[i] : i \in DOMAIN nonces} :
        \A i \in DOMAIN nonces : n <= nonces[i]

\* what GetLatestFullySynchronizedHyperblockNonce returns
NonceReturn(nonce, err) == [nonce |-> nonce, err |-> err]

GetLatestFullySynchronizedHyperblockNonce ==
    /\ pc = "idle"
    /\ op' = "GetLatestFullySynchronizedHyperblockNonce"
    /\ args' = NoArgs
    /\ locals' = [shardPos |-> 1, nonces |-> <<>>]
    /\ Goto("GetLatestFullySynchronizedHyperblockNonce.shards")
    /\ UNCHANGED <<config, sendVars, chain, scQueries, lookups, calls, outs>>

\* one iteration of the loop over the shards, up to the first call for the
\* status of the shard
GetLatestFullySynchronizedHyperblockNonceShard ==
    /\ pc = "GetLatestFullySynchronizedHyperblockNonce.shards"
    /\ IF locals.shardPos > Len(GetShardIDs)
       THEN /\ Finish(NonceReturn(MinNonce(locals.nonces), Nil))
            /\ UNCHANGED lookups
       ELSE LET shardID == GetShardIDs[locals.shardPos]
                observers == StatusObservers("GetNetworkStatusMetrics", shardID)
            IN  /\ lookups' = Append(lookups, observers.looked)
                /\ IF observers.err # Nil
                   THEN Finish(NonceReturn(0, observers.err))
                   ELSE IF observers.observers = <<>>
                   THEN Finish(NonceReturn(0, ErrSendingRequest))
                   ELSE Loop("GetLatestFullySynchronizedHyperblockNonce.status",
                             observers.observers)
    /\ UNCHANGED <<config, sendVars, op, args, chain, locals, scQueries, calls, outs>>

GetLatestFullySynchronizedHyperblockNonceCall ==
    /\ pc = "GetLatestFullySynchronizedHyperblockNonce.status"
    /\ IssueCall(NodeStatusPath("GetNetworkStatusMetrics"))
    /\ UNCHANGED <<config, sendVars, op, args, chain, locals, scQueries, answers,
                   lookups, pc, nodes, loopStart, outs, result>>

GetLatestFullySynchronizedHyperblockNonceAnswer ==
    /\ pc = "GetLatestFullySynchronizedHyperblockNonce.status"
    /\ Blocked
    /\ \E o \in Answers : \E metrics \in StatusMetricsOf(LastCall.node) :
        IF StatusCallOk(o)
        THEN /\ outs' = Append(outs, Answered(o, metrics))
             /\ locals' = [shardPos |-> locals.shardPos + 1,
                           nonces |-> Append(locals.nonces,
                                             NonceFromStatus(LastCall.node.shard,
                                                             metrics))]
             /\ Goto("GetLatestFullySynchronizedHyperblockNonce.shards")
        ELSE /\ outs' = Append(outs, Answered(o, <<>>))
             /\ UNCHANGED locals
             /\ IF Exhausted
                THEN Finish(NonceReturn(0, ErrSendingRequest))
                ELSE Continue
    /\ UNCHANGED <<config, sendVars, op, args, chain, scQueries, lookups, calls>>

---------------------------------------------------------------------------
(* The specifications *)

NoResult == [code |-> 0, hash |-> NoHash, err |-> Nil]

Registries == [AllShards -> -1..MaxObs]

\* SendTransaction and SimulateTransaction look up the worker shards only
WorkerRegistries == {r \in Registries : r[MetachainShardId] = 1}

NoFullHistory == [s \in AllShards |-> 0]

\* no second request is served
NoRequest == [none |-> TRUE]

\* the state before a request is served
Idle ==
    /\ parked = NoRequest
    /\ answers = <<>>
    /\ args = NoArgs
    /\ chain = NoChain
    /\ locals = NoLocals
    /\ scQueries = <<>>
    /\ lookups = <<>>
    /\ op = "none"
    /\ tx = NoTx
    /\ checkSig = TRUE
    /\ pc = "idle"
    /\ nodes = <<>>
    /\ idx = 1
    /\ loopStart = 0
    /\ calls = <<>>
    /\ outs = <<>>
    /\ senderResp = NilResp
    /\ result = NoResult

\* a processor with observers of the worker shards
WorkersOnly ==
    /\ registry \in WorkerRegistries
    /\ fullHistory = NoFullHistory
    /\ shouldAllowEntireTxPoolFetch = FALSE

Init == Idle /\ WorkersOnly /\ env = "free"

Next ==
    \/ SendTransaction
    \/ SendTransactionCall
    \/ SendTransactionAnswer
    \/ SimulateTransaction
    \/ simulateTransactionCall
    \/ simulateTransactionAnswer

Spec == Init /\ [][Next]_vars

\* SendTransaction alone, the answers of the sender shard's observers being
\* fixed when the loop over them starts
InitFixed == Idle /\ WorkersOnly /\ env = "fixed"

NextSend ==
    \/ SendTransaction
    \/ SendTransactionCall
    \/ SendTransactionAnswer

SpecSend == InitFixed /\ [][NextSend]_vars

\* every operation, the observers answering one answer of each class; every
\* shard has the same number of observers and of full-history nodes
Uniform == {[s \in AllShards |-> n] : n \in -1..MaxObs}

InitLoops ==
    /\ Idle
    /\ env = "classes"
    /\ registry \in Uniform
    /\ fullHistory \in Uniform
    /\ shouldAllowEntireTxPoolFetch \in BOOLEAN

NextSendMultiple ==
    \/ SendMultipleTransactions
    \/ SendMultipleTransactionsGroup
    \/ SendMultipleTransactionsCall
    \/ SendMultipleTransactionsAnswer

NextGetTransaction ==
    \/ GetTransaction
    \/ GetTransactionByHashAndSenderAddress
    \/ GetTransactionStatus
    \/ getTxFromObservers
    \/ getTxFromObserverCall
    \/ getTxFromObserverAnswer
    \/ alterTxWithScResultsFromSourceIfNeededAnswer
    \/ getTxWithSenderAddrAnswer
    \/ getTxFromDestShardAnswer

NextPool ==
    \/ GetTransactionsPool
    \/ getTxPool
    \/ GetTransactionsPoolForShard
    \/ getTxPoolForShardCall
    \/ getTxPoolForShardAnswer
    \/ GetTransactionsPoolForSender
    \/ getTxPoolForSenderCall
    \/ getTxPoolForSenderAnswer
    \/ GetLastPoolNonceForSender
    \/ getLastTxPoolNonceForSenderCall
    \/ getLastTxPoolNonceForSenderAnswer
    \/ GetTransactionsPoolNonceGapsForSender
    \/ getTxPoolNonceGapsForSenderCall
    \/ getTxPoolNonceGapsForSenderAnswer

NextESDT ==
    \/ GetESDTSupply
    \/ getSupplyFromShards
    \/ getShardSupplyCall
    \/ getShardSupplyAnswer
    \/ getInitialSupplyFromMeta

NextLoops ==
    \/ Next
    \/ NextSendMultiple
    \/ NextGetTransaction
    \/ NextPool
    \/ NextESDT

SpecLoops == InitLoops /\ [][NextLoops]_vars

\* SendMultipleTransactions alone, the worker shards differing in their
\* observers
InitMulti == Idle /\ WorkersOnly /\ env = "classes"

SpecMulti == InitMulti /\ [][NextSendMultiple]_vars

\* the lookups of a transaction: no full-history node, the shards differing
\* in their observers (none to be had, an empty list, a full one), and the
\* answer of every node of a list settled when its loop starts
InitGetTx ==
    /\ Idle
    /\ env = "fixedClasses"
    /\ registry \in [AllShards -> {-1, 0, MaxObs}]
    /\ fullHistory = NoFullHistory
    /\ shouldAllowEntireTxPoolFetch = FALSE

SpecGetTx == InitGetTx /\ [][NextGetTransaction]_vars

\* the lookups of a transaction with one observer in every shard, the two
\* shards of the transaction holding any lists of smart contract results
InitMerge ==
    /\ Idle
    /\ env = "merge"
    /\ registry = [s \in AllShards |-> 1]
    /\ fullHistory = NoFullHistory
    /\ shouldAllowEntireTxPoolFetch = FALSE

SpecMerge == InitMerge /\ [][NextGetTransaction]_vars

\* the pool operations alone, the shards differing in their observers, with
\* the fetch of the entire pool allowed or not
InitPool ==
    /\ Idle
    /\ env = "classes"
    /\ registry \in Registries
    /\ fullHistory = NoFullHistory
    /\ shouldAllowEntireTxPoolFetch \in BOOLEAN

SpecPool == InitPool /\ [][NextPool]_vars

\* GetESDTSupply alone, the worker shards differing in their observers
InitESDT == Idle /\ WorkersOnly /\ env = "classes"

SpecESDT == InitESDT /\ [][NextESDT]_vars

\* ComputeTransactionHash alone
InitHash == Idle /\ WorkersOnly /\ env = "classes"

NextHash == ComputeTransactionHashRequest

SpecHash == InitHash /\ [][NextHash]_vars

\* the operations of the node-status processor alone, the shards differing
\* in their observers
InitStatus ==
    /\ Idle
    /\ env = "classes"
    /\ registry \in Registries
    /\ fullHistory = NoFullHistory
    /\ shouldAllowEntireTxPoolFetch = FALSE

NextStatus ==
    \/ NodeStatusRequest
    \/ NodeStatusCall
    \/ NodeStatusAnswer
    \/ GetLatestFullySynchronizedHyperblockNonce
    \/ GetLatestFullySynchronizedHyperblockNonceShard
    \/ GetLatestFullySynchronizedHyperblockNonceCall
    \/ GetLatestFullySynchronizedHyperblockNonceAnswer

SpecStatus == InitStatus /\ [][NextStatus]_vars

\* the variables of the request that is taking the steps
Context ==
    [answers |-> answers, lookups |-> lookups, op |-> op, tx |-> tx,
     checkSig |-> checkSig, args |-> args, chain |-> chain, locals |-> locals,
     scQueries |-> scQueries, pc |-> pc, nodes |-> nodes, idx |-> idx,
     loopStart |-> loopStart, calls |-> calls, outs |-> outs,
     senderResp |-> senderResp, result |-> result]

\* the variables of a request before it is served
IdleContext ==
    [answers |-> <<>>, lookups |-> <<>>, op |-> "none", tx |-> NoTx,
     checkSig |-> TRUE, args |-> NoArgs, chain |-> NoChain, locals |-> NoLocals,
     scQueries |-> <<>>, pc |-> "idle", nodes |-> <<>>, idx |-> 1,
     loopStart |-> 0, calls |-> <<>>, outs |-> <<>>,
     senderResp |-> NilResp, result |-> NoResult]

\* the scheduler turns from the task of one request to the task of the other,
\* which may be at its start
Switch ==
    LET other == IF parked = NoRequest THEN IdleContext ELSE parked IN
    /\ parked' = Context
    /\ answers' = other.answers
    /\ lookups' = other.lookups
    /\ op' = other.op
    /\ tx' = other.tx
    /\ checkSig' = other.checkSig
    /\ args' = other.args
    /\ chain' = other.chain
    /\ locals' = other.locals
    /\ scQueries' = other.scQueries
    /\ pc' = other.pc
    /\ nodes' = other.nodes
    /\ idx' = other.idx
    /\ loopStart' = other.loopStart
    /\ calls' = other.calls
    /\ outs' = other.outs
    /\ senderResp' = other.senderResp
    /\ result' = other.result
    /\ UNCHANGED <<processor, env>>

\* two pool requests served concurrently by one processor, each by its own
\* task; every shard has the same number of observers
InitConcurrent ==
    /\ Idle
    /\ env = "classes"
    /\ registry \in {[s \in AllShards |-> n] : n \in 0..1}
    /\ fullHistory = NoFullHistory
    /\ shouldAllowEntireTxPoolFetch \in BOOLEAN

NextConcurrent == NextPool \/ Switch

SpecConcurrent == InitConcurrent /\ [][NextConcurrent]_vars

---------------------------------------------------------------------------
(* The properties *)

\* the skip class as section 4.2 of the specification words it: status 404,
\* 408 or 429, or any transport error
SkipClass(o) ==
    \/ o.status \in {StatusNotFound, StatusRequestTimeout, StatusTooManyRequests}
    \/ o.err = "transport"

\* the answers SendTransaction and simulateTransaction skip: status 404 or 408
SkipStatus(o) == o.status \in {StatusNotFound, StatusRequestTimeout}

\* the ok class: status 200 and no error
OkAnswer(o) == o.status = StatusOK /\ o.err = "nil"

\* a sequence of hex digits of even length
IsHexString(s) == Len(s) % 2 = 0 /\ \A i \in 1..Len(s) : s[i] \in HexDigits

\* the rejection rule of checkTransactionFields as the specification words it
InvalidFields(t) ==
    \/ Decode(t.Sender).err # Nil
    \/ Decode(t.Receiver).err # Nil
    \/ t.ChainID = ""
    \/ t.Version = 0
    \/ (t.Signature # <<>> /\ ~IsHexString(t.Signature))

ShardOf(address) == ComputeShardId(Decode(address).bytes)

\* SendTransaction has returned
SendServed == op = "SendTransaction" /\ pc = "done"

\* SendTransaction has returned and had obtained the observers of the sender
\* shard: nodes is that list, and answers what each of them answers
SendListed ==
    /\ SendServed
    /\ ~InvalidFields(tx)
    /\ ShardOf(tx.Sender).err = Nil
    /\ registry[ShardOf(tx.Sender).shard] >= 0

\* observer k is the first of the list whose answer is not in the class P
FirstNot(P(_), k) ==
    /\ k \in 1..Len(answers)
    /\ ~P(answers[k])
    /\ \A j \in 1..(k - 1) : P(answers[j])

\* the calls made are those to the first k observers of the list, in order
ContactedUpTo(k) ==
    /\ Len(calls) = k
    /\ \A i \in 1..k : calls[i].node = nodes[i]

\* C1 as stated: the first observer whose answer is outside the skip class of
\* section 4.2 (404, 408, 429, transport error) answers a non-200 status S;
\* then SendTransaction returns S, no hash and that observer's error, and
\* contacts no later observer.
C1_Original ==
    SendListed =>
        \A k \in 1..Len(answers) :
            (FirstNot(SkipClass, k) /\ answers[k].status # StatusOK) =>
                /\ result = SendResult(answers[k].status, NoHash,
                                       CallErr(answers[k].err, nodes[k]))
                /\ ContactedUpTo(k)

\* C1 amended: the same with the skip class being status 404 or 408 only.
C1_FirstTerminalStatusReturned ==
    SendListed =>
        \A k \in 1..Len(answers) :
            (FirstNot(SkipStatus, k) /\ answers[k].status # StatusOK) =>
                /\ result = SendResult(answers[k].status, NoHash,
                                       CallErr(answers[k].err, nodes[k]))
                /\ ContactedUpTo(k)

\* the first observer rejects the transaction, the second would accept it
C1_Witness ==
    /\ SendListed
    /\ Len(nodes) = 2
    /\ answers[1].status = StatusBadRequest
    /\ OkAnswer(answers[2])
    /\ result.code = StatusBadRequest
    /\ Len(calls) = 1

\* C2 as stated: on an answer of status 404, 408 or 429, or one carrying a
\* transport error, SendTransaction does not return but goes on with the next
\* observer (when there is one).
C2_Original ==
    SendServed =>
        \A i \in 1..Len(outs) :
            SkipClass(outs[i]) => (i < Len(calls) \/ calls[i].pos = calls[i].of)

\* C2 amended: on an answer of status 404 or 408, with or without an error,
\* SendTransaction goes on with the next observer; on any other answer
\* (429 and errors with another status included) it returns.
C2_SkipIs404Or408 ==
    SendServed =>
        \A i \in 1..Len(outs) :
            /\ SkipStatus(outs[i]) =>
                   \/ i < Len(calls) /\ calls[i + 1].pos = calls[i].pos + 1
                   \/ calls[i].pos = calls[i].of
            /\ ~SkipStatus(outs[i]) => i = Len(calls)

\* a timeout with a transport error was skipped and the next observer asked
C2_Witness ==
    /\ SendServed
    /\ Len(calls) = 2
    /\ outs[1] = [status |-> StatusRequestTimeout, err |-> "transport"]
    /\ outs[2].status = StatusTooManyRequests
    /\ result.code = StatusTooManyRequests

\* C3 as stated: every observer before k answers in the skip class of section
\* 4.2 and observer k answers 200 with no error; then SendTransaction returns
\* (200, observer k's tx hash, nil) and contacts no observer after k.
C3_Original ==
    SendListed =>
        \A k \in 1..Len(answers) :
            (OkAnswer(answers[k]) /\ \A j \in 1..(k - 1) : SkipClass(answers[j])) =>
                /\ result = SendResult(StatusOK, TxHashOf(nodes[k]), Nil)
                /\ ContactedUpTo(k)

\* C3 amended: the same with the skip class being status 404 or 408 only.
C3_FirstOkWins ==
    SendListed =>
        \A k \in 1..Len(answers) :
            (OkAnswer(answers[k]) /\ \A j \in 1..(k - 1) : SkipStatus(answers[j])) =>
                /\ result = SendResult(StatusOK, TxHashOf(nodes[k]), Nil)
                /\ ContactedUpTo(k)

\* the first observer is skipped and the second accepts the transaction
C3_Witness ==
    /\ SendListed
    /\ Len(nodes) = 2
    /\ SkipStatus(answers[1])
    /\ OkAnswer(answers[2])
    /\ result.hash = TxHashOf(nodes[2])

\* C4 as stated: every observer of the sender shard answers in the skip class
\* of section 4.2 (or there is none); then SendTransaction returns
\* (500, no hash, ErrSendingRequest).
C4_Original ==
    (SendListed /\ \A j \in 1..Len(answers) : SkipClass(answers[j])) =>
        result = SendResult(StatusInternalServerError, NoHash, ErrSendingRequest)

\* C4 amended: the same with the skip class being status 404 or 408 only.
C4_ExhaustedIsSendingRequest ==
    (SendListed /\ \A j \in 1..Len(answers) : SkipStatus(answers[j])) =>
        /\ result = SendResult(StatusInternalServerError, NoHash, ErrSendingRequest)
        /\ ContactedUpTo(Len(nodes))

\* both observers of the sender shard were skipped
C4_Witness ==
    /\ SendListed
    /\ Len(nodes) = 2
    /\ \A j \in 1..2 : SkipStatus(answers[j])
    /\ Len(outs) = 2
    /\ result.err = ErrSendingRequest

\* C5: when the transaction fails the validation, SendTransaction returns 400,
\* no hash and the validation error, having made no registry lookup and no
\* backend call.
C5_InvalidIsBadRequest ==
    (op = "SendTransaction" /\ InvalidFields(tx)) =>
        /\ pc = "done"
        /\ result.code = StatusBadRequest
        /\ result.hash = NoHash
        /\ result.err.kind = "ErrInvalidTxFields"
        /\ result.err = checkTransactionFields(tx)
        /\ lookups = <<>>
        /\ calls = <<>>

\* a transaction without version, from a shard that has observers
C5_Witness ==
    /\ SendServed
    /\ tx.Version = 0
    /\ tx.ChainID # ""
    /\ tx.Sender = "a0"
    /\ tx.Receiver = "a1"
    /\ registry[0] > 0

\* C6: checkTransactionFields returns an InvalidTxFields error exactly when
\* the sender or the receiver fails to decode, the chain ID is empty, the
\* version is zero, or the signature is non-empty and not valid hex; it
\* returns nil for every other transaction, an empty signature included.
C6_CheckTransactionFields ==
    op # "none" =>
        /\ checkTransactionFields(tx).kind = "ErrInvalidTxFields" <=> InvalidFields(tx)
        /\ checkTransactionFields(tx) = Nil <=> ~InvalidFields(tx)
        /\ (pc # "done" \/ lookups # <<>>) => ~InvalidFields(tx)

\* a transaction with an empty signature passed the validation
C6_Witness ==
    /\ op = "SendTransaction"
    /\ tx.Signature = <<>>
    /\ pc = "SendTransaction"
    /\ Len(calls) = 1

\* the calls of the loop being run, or of the last one run
LoopCalls == Len(calls) - loopStart

\* C7: every loop over observers contacts the observers of its list in list
\* order, each at most once, and one call at a time: the call to an observer
\* is issued only when the call to the one before it has returned.
C7_SequentialInListOrder ==
    /\ Len(outs) <= Len(calls)
    /\ Len(calls) <= Len(outs) + 1
    /\ LoopCalls >= 0
    /\ LoopCalls <= Len(nodes)
    /\ \A k \in 1..LoopCalls :
           /\ calls[loopStart + k].node = nodes[k]
           /\ calls[loopStart + k].pos = k
           /\ calls[loopStart + k].of = Len(nodes)
    /\ \A k, l \in 1..Len(nodes) : nodes[k] = nodes[l] => k = l
    /\ \A i \in 1..Len(calls) :
           \/ calls[i].pos = 1
           \/ /\ i > 1
              /\ calls[i].pos = calls[i - 1].pos + 1
              /\ calls[i].of = calls[i - 1].of
              /\ calls[i].node # calls[i - 1].node
              /\ calls[i].node.shard = calls[i - 1].node.shard
              /\ calls[i].path = calls[i - 1].path

\* a transaction found on the second node of shard 0 is being looked for on
\* the second observer of its destination shard
C7_Witness ==
    /\ op = "GetTransaction"
    /\ pc = "getTxFromDestShard"
    /\ loopStart = 2
    /\ Len(calls) = 4
    /\ Len(outs) = 3
    /\ calls[4].node = nodes[2]
    /\ calls[2].node = FullHistoryNode(0, 2)

\* SimulateTransaction has returned (or panicked)
SimServed == op = "SimulateTransaction" /\ pc = "done"

OkCalls == {i \in 1..Len(outs) : OkAnswer(outs[i])}

\* SimulateTransaction returned a response and no error
SimSucceeded == SimServed /\ result.kind = "return" /\ result.err = Nil

\* C9: a simulation that returns without error returns, for equal sender and
\* receiver shards, the data, error and code of the sender-shard observer's
\* response, with no further simulation call; otherwise the success envelope
\* mapping senderShard and receiverShard to the results of the one ok answer
\* of each shard.  An ok answer for an intra-shard transaction is returned.
C9_SimulationResult ==
    /\ SimSucceeded =>
        LET s == ShardOf(tx.Sender).shard
            r == ShardOf(tx.Receiver).shard
            last == Len(calls)
        IN  IF s = r
            THEN /\ OkCalls = {last}
                 /\ \A i \in 1..last : calls[i].node.shard = s
                 /\ result.response.Data = SimResponseOf(calls[last].node).Data
                 /\ result.response.Error = SimResponseOf(calls[last].node).Error
                 /\ result.response.Code = SimResponseOf(calls[last].node).Code
            ELSE \E m \in 1..(last - 1) :
                 /\ OkCalls = {m, last}
                 /\ \A i \in 1..m : calls[i].node.shard = s
                 /\ \A i \in (m + 1)..last : calls[i].node.shard = r
                 /\ result.response.Error = <<>>
                 /\ result.response.Code = ReturnCodeSuccess
                 /\ result.response.Data.Result =
                        [senderShard |-> SimResponseOf(calls[m].node).Data.Result,
                         receiverShard |-> SimResponseOf(calls[last].node).Data.Result]
    /\ (SimServed /\ OkCalls # {} /\ ShardOf(tx.Receiver).err = Nil
            /\ ShardOf(tx.Sender).shard = ShardOf(tx.Receiver).shard) => SimSucceeded

\* a cross-shard simulation succeeded after a skipped observer
C9_Witness ==
    /\ SimSucceeded
    /\ tx.Sender = "a0"
    /\ tx.Receiver = "a1"
    /\ Len(calls) = 3
    /\ calls[3].node.shard = 1

\* the error simulateTransaction returns from the answer o of node, the last
\* answer of its list when atEnd
SimLoopErr(o, node, atEnd) ==
    IF SkipStatus(o) /\ atEnd THEN ErrSendingRequest ELSE CallErr(o.err, node)

\* the error the simulation on the observers of shard ended with: that of an
\* empty list, or that of the last call when it went to that shard and its
\* answer was not ok; Nil when there is none
SimFailure(shard) ==
    IF registry[shard] = 0 THEN ErrSendingRequest
    ELSE IF registry[shard] < 0 \/ calls = <<>> THEN Nil
    ELSE IF LastCall.node.shard # shard \/ OkAnswer(outs[Len(calls)]) THEN Nil
    ELSE SimLoopErr(outs[Len(calls)], LastCall.node, LastCall.pos = LastCall.of)

MultiServed == op = "SendMultipleTransactions" /\ pc = "done"

\* SendMultipleTransactions has returned a response and no error
MultiSucceeded == MultiServed /\ result.err = Nil

\* C11: the key under which the hash of a sent transaction is stored in the
\* returned txHashes is the position of that transaction in the list given to
\* SendMultipleTransactions, also when transactions before it were dropped by
\* the validation.
C11_HashKeyIsInputPosition ==
    MultiSucceeded =>
        \A i \in OkCalls :
            \A key \in DOMAIN outs[i].body.TxsHashes :
                LET position == locals.posted[i][key + 1].input IN
                /\ position \in DOMAIN result.response.TxsHashes
                /\ result.response.TxsHashes[position] = outs[i].body.TxsHashes[key]

\* the sum of NumOfTxs over the ok answers among the first i
RECURSIVE SumNumOfTxs(_)
SumNumOfTxs(i) ==
    IF i = 0 THEN 0
    ELSE (IF OkAnswer(outs[i]) THEN outs[i].body.NumOfTxs ELSE 0) + SumNumOfTxs(i - 1)

\* C12: the group of a shard is posted to the observers of the shard in order
\* until the first ok answer; no observer of the shard receives the group
\* after it; the hashes of that response are stored under the Index of the
\* transactions, and the returned numOfTxs is the sum of the numOfTxs of the
\* ok responses.
C12_FirstOkContributes ==
    MultiSucceeded =>
        /\ \A i \in 1..Len(outs) :
               /\ locals.posted[i] = locals.txsByShardID[calls[i].node.shard]
               /\ IF OkAnswer(outs[i])
                  THEN \A j \in (i + 1)..Len(calls) :
                           calls[j].node.shard # calls[i].node.shard
                  ELSE \/ calls[i].pos = calls[i].of
                       \/ /\ i < Len(calls)
                          /\ calls[i + 1].pos = calls[i].pos + 1
                          /\ calls[i + 1].node.shard = calls[i].node.shard
        /\ result.response.NumOfTxs = SumNumOfTxs(Len(outs))
        /\ DOMAIN result.response.TxsHashes =
               UNION {{locals.posted[i][key + 1].Index :
                           key \in DOMAIN outs[i].body.TxsHashes} : i \in OkCalls}
        /\ \A i \in OkCalls :
               \A key \in DOMAIN outs[i].body.TxsHashes :
                   result.response.TxsHashes[locals.posted[i][key + 1].Index] =
                       outs[i].body.TxsHashes[key]

\* the groups of both shards were accepted, that of shard 1 by the second
\* observer asked
C12_Witness ==
    /\ MultiSucceeded
    /\ Len(calls) = 3
    /\ Cardinality(OkCalls) = 2
    /\ ~OkAnswer(outs[1]) /\ calls[1].node.shard = 1
    /\ result.response.NumOfTxs = 2

\* C13: when no transaction of the list passes the validation (or the list is
\* empty), SendMultipleTransactions returns an empty response and
\* ErrNoValidTransactionToSend, having made no registry lookup and no backend
\* call; no transaction that fails the validation is in a group posted.
C13_NoValidTransaction ==
    op = "SendMultipleTransactions" =>
        /\ (\A j \in 1..Len(args.txs) : InvalidFields(args.txs[j])) =>
               /\ pc = "done"
               /\ result = MultiReturn(EmptyMultipleTransactionsResponseData,
                                       ErrNoValidTransactionToSend)
               /\ lookups = <<>>
               /\ calls = <<>>
        /\ \A i \in 1..Len(calls) :
               \A j \in 1..Len(locals.posted[i]) :
                   ~InvalidFields(locals.posted[i][j].tx)

\* a list of two transactions without version
C13_Witness ==
    /\ MultiServed
    /\ Len(args.txs) = 2
    /\ \A j \in 1..2 : args.txs[j].Version = 0
    /\ registry[0] > 0
    /\ result.err = ErrNoValidTransactionToSend

\* C14: when the observers of the sender shard of some valid transaction
\* cannot be obtained, SendMultipleTransactions returns ErrMissingObserver
\* and an empty response, also when the group of another shard was accepted
\* by an observer before.
C14_MissingObserver ==
    (MultiServed
        /\ \E j \in 1..Len(args.txs) :
               /\ ~InvalidFields(args.txs[j])
               /\ ShardOf(args.txs[j].Sender).err = Nil
               /\ registry[ShardOf(args.txs[j].Sender).shard] < 0) =>
        /\ result.err = ErrMissingObserver
        /\ result.response.NumOfTxs = 0
        /\ DOMAIN result.response.TxsHashes = {}

\* the group of one shard was accepted, then the other shard had no observers
C14_Witness ==
    /\ MultiServed
    /\ result.err = ErrMissingObserver
    /\ Len(calls) = 1
    /\ OkAnswer(outs[1])
    /\ outs[1].body.NumOfTxs = 1

\* the list of nodes a full-history request is served from in a shard: the
\* full-history nodes when there are some, the observers otherwise
NodesServing(shard) ==
    IF fullHistory[shard] > 0
    THEN [i \in 1..fullHistory[shard] |-> FullHistoryNode(shard, i)]
    ELSE [i \in 1..registry[shard] |-> Node(shard, i)]

\* getTxFromObservers is asking the nodes of the shard at locals.shardPos
AskingShard(name) == op = name /\ pc = "getTxFromObserver"

\* C15 as stated: GetTransaction asks the full-history nodes of a shard only
\* when withResults is true; when it is false it asks the observers of the
\* shard.
C15_Original ==
    AskingShard("GetTransaction") =>
        LET shard == GetShardIDs[locals.shardPos] IN
        /\ args.withResults => nodes = NodesServing(shard)
        /\ ~args.withResults => nodes = [i \in 1..registry[shard] |-> Node(shard, i)]

\* C15 amended: GetTransaction asks the full-history nodes of a shard, when
\* the shard has some, whether withResults is true or false, and the
\* observers of the shard only when it has none; withResults decides only
\* whether the path asks for the results.
C15_FullHistoryWhateverWithResults ==
    AskingShard("GetTransaction") =>
        /\ nodes = NodesServing(GetShardIDs[locals.shardPos])
        /\ \A k \in 1..LoopCalls :
               calls[loopStart + k].path =
                   IF args.withResults
                   THEN <<"/transaction/", args.txHash, "?withResults=true">>
                   ELSE <<"/transaction/", args.txHash>>

\* a transaction asked for without results is looked for on a full-history
\* node
C15_Witness ==
    /\ AskingShard("GetTransaction")
    /\ ~args.withResults
    /\ Len(calls) = 1
    /\ calls[1].node = FullHistoryNode(0, 1)
    /\ registry[0] > 0

\* the last n registry lookups made
LastLookups(n) == SubSeq(lookups, Len(lookups) - n + 1, Len(lookups))

\* C16: a full-history request is served from the full-history nodes of the
\* shard exactly when GetFullHistoryNodes succeeds with a non-empty list, and
\* otherwise from what GetObservers returns for the shard, whose failure is
\* the only error; a regular request never consults GetFullHistoryNodes.
C16_getNodesInShard ==
    /\ \A name \in {"GetTransaction", "GetTransactionStatus"} :
           AskingShard(name) =>
               LET shard == GetShardIDs[locals.shardPos] IN
               IF name = "GetTransaction"
               THEN /\ nodes = NodesServing(shard)
                    /\ IF fullHistory[shard] > 0
                       THEN LastLookups(1) = <<Lookup("GetFullHistoryNodes", shard)>>
                       ELSE LastLookups(2) = <<Lookup("GetFullHistoryNodes", shard),
                                               Lookup("GetObservers", shard)>>
               ELSE /\ nodes = [i \in 1..registry[shard] |-> Node(shard, i)]
                    /\ \A i \in 1..Len(lookups) : lookups[i].what = "GetObservers"
    /\ (op = "GetTransaction" /\ pc = "done" /\ result.err = ErrNoObserversForShard) =>
           LET shard == lookups[Len(lookups)].shard IN
           /\ registry[shard] < 0
           /\ fullHistory[shard] <= 0
           /\ LastLookups(2) = <<Lookup("GetFullHistoryNodes", shard),
                                 Lookup("GetObservers", shard)>>
    /\ (op = "GetTransaction" /\ pc = "getTxFromObservers"
            /\ locals.shardPos \in 1..Len(GetShardIDs)) =>
           LET shard == GetShardIDs[locals.shardPos]
               nodesInShard == getNodesInShard(shard, requestTypeFullHistoryNodes)
           IN  /\ nodesInShard.err # Nil <=> (registry[shard] < 0 /\ fullHistory[shard] <= 0)
               /\ nodesInShard.err = Nil => nodesInShard.observers = NodesServing(shard)

\* no full-history node is configured: the observers of the shard are asked
C16_Witness ==
    /\ AskingShard("GetTransaction")
    /\ fullHistory[0] = 0
    /\ lookups = <<Lookup("GetFullHistoryNodes", 0), Lookup("GetObservers", 0)>>
    /\ Len(calls) = 1
    /\ calls[1].node = Node(0, 1)

\* GetTransaction or GetTransactionStatus without sender has returned
ServedWithoutSender ==
    /\ pc = "done"
    /\ op \in {"GetTransaction", "GetTransactionStatus"}
    /\ args.sender = ""

\* getTxFromObservers has given up the list of nodes whose answers are in
\* answers: it goes on with the next shard, or the operation has failed
ListGivenUp ==
    /\ op \in {"GetTransaction", "GetTransactionStatus"}
    /\ args.sender = ""
    /\ \/ pc = "getTxFromObservers"
       \/ pc = "done" /\ result.err # Nil

\* C17 as stated: when a node of the list queried in a shard answers 200 and
\* no error, GetTransaction and GetTransactionStatus without sender return a
\* transaction, whatever the other nodes answer.
C17_Original ==
    (ServedWithoutSender /\ \E k \in 1..Len(answers) : OkAnswer(answers[k])) =>
        result.err = Nil

\* C17 amended: when a node that is queried answers 200 and no error, the
\* operation returns a transaction; the nodes of a shard are queried up to
\* the first whose call returns no error, so that a list is given up with a
\* node that answers 200 only when an earlier node of the list answered
\* another status without error.
C17_QueriedOkReturns ==
    /\ (ServedWithoutSender /\ \E i \in 1..Len(outs) : OkAnswer(outs[i])) =>
           /\ result.err = Nil
           /\ \E i \in OkCalls :
                  IF op = "GetTransaction"
                  THEN result.value.node = calls[i].node
                  ELSE result.value = outs[i].body.Status
    /\ ListGivenUp =>
           \A k \in 1..Len(answers) :
               OkAnswer(answers[k]) =>
                   \E j \in 1..(k - 1) :
                       answers[j].err = "nil" /\ answers[j].status # StatusOK

\* the first node of shard 0 failed with an error and the second returned the
\* transaction
C17_Witness ==
    /\ ServedWithoutSender
    /\ op = "GetTransaction"
    /\ Len(outs) >= 2
    /\ outs[1].err = "transport"
    /\ OkAnswer(outs[2])
    /\ calls[2].pos = 2
    /\ result.err = Nil

\* GetTransaction has returned and no node answered 200 with no error
NoNodeAnsweredOk ==
    /\ op = "GetTransaction"
    /\ pc = "done"
    /\ \A i \in 1..Len(outs) : ~OkAnswer(outs[i])

\* the lookup of the nodes of some shard fails
SomeLookupFails ==
    \E shard \in AllShards : registry[shard] < 0 /\ fullHistory[shard] <= 0

\* C18 as stated: when no node of any shard answers 200 with no error,
\* GetTransaction fails with ErrTransactionNotFound, also when the lookup of
\* the nodes of a shard fails.
C18_Original ==
    NoNodeAnsweredOk => result.err = ErrTransactionNotFound

\* C18 amended: when no node of any shard answers 200 with no error,
\* GetTransaction fails with ErrTransactionNotFound if the lookup of the nodes
\* succeeds for every shard, and with the error of the lookup if it fails for
\* some shard.
C18_NotFoundOrLookupError ==
    NoNodeAnsweredOk =>
        /\ result.value = NilTx
        /\ result.err = IF SomeLookupFails
                        THEN ErrNoObserversForShard
                        ELSE ErrTransactionNotFound

\* the nodes of the three shards were asked and none had the transaction
C18_Witness ==
    /\ NoNodeAnsweredOk
    /\ Len(calls) >= 3
    /\ calls[Len(calls)].node.shard = MetachainShardId
    /\ result.err = ErrTransactionNotFound

\* a lookup with results has returned the transaction merged from the copies
\* of two shards
Merged ==
    /\ pc = "done"
    /\ op \in {"GetTransaction", "GetTransactionByHashAndSenderAddress"}
    /\ args.withResults
    /\ Cardinality(OkCalls) = 2

\* the smart contract results of the copy obtained from the destination
\* shard of the transaction, and those of the other copy
DestinationScrs ==
    LET i == CHOOSE i \in OkCalls : calls[i].node.shard = ShardOf(chain.Receiver).shard
    IN  outs[i].body.SmartContractResults

SourceScrs ==
    LET i == CHOOSE i \in OkCalls : calls[i].node.shard # ShardOf(chain.Receiver).shard
    IN  outs[i].body.SmartContractResults

HashesOf(scResults) == {scResults[k].Hash : k \in DOMAIN scResults}

\* C19: the smart contract results of a transaction merged from the copies of
\* the source and of the destination shard hold no hash twice, and hold
\* exactly the hashes that occur in one of the two lists, whatever hashes
\* the two lists repeat.
C19_ScResultsUnion ==
    Merged =>
        LET scResults == result.value.SmartContractResults IN
        /\ \A a, b \in DOMAIN scResults :
               scResults[a].Hash = scResults[b].Hash => a = b
        /\ HashesOf(scResults) = HashesOf(SourceScrs) \cup HashesOf(DestinationScrs)

\* both lists repeat a hash and each has a hash the other has not
C19_Witness ==
    /\ Merged
    /\ Len(SourceScrs) = 2 /\ HashesOf(SourceScrs) = {"r"}
    /\ Len(DestinationScrs) = 2 /\ HashesOf(DestinationScrs) = {"q"}
    /\ Len(result.value.SmartContractResults) = 2

\* the entries of scResults that have the hash
Occurrences(scResults, hash) == SelectSeq(scResults, LAMBDA e : e.Hash = hash)

\* the entry of scResults that has the hash
EntryOf(scResults, hash) ==
    scResults[CHOOSE k \in DOMAIN scResults : scResults[k].Hash = hash]

\* C20 as stated: for a hash in both lists the entry kept is the copy of the
\* destination shard with Logs = MergeLogEvents(logs of the source copy, logs
\* of the destination copy); an entry whose hash is in one list only is kept
\* with its logs unchanged.
C20_Original ==
    Merged =>
        \A hash \in HashesOf(result.value.SmartContractResults) :
            LET kept == EntryOf(result.value.SmartContractResults, hash)
                inSource == Occurrences(SourceScrs, hash)
                inDestination == Occurrences(DestinationScrs, hash)
            IN  IF inSource # <<>> /\ inDestination # <<>>
                THEN \E s \in DOMAIN inSource, d \in DOMAIN inDestination :
                         kept = [inDestination[d] EXCEPT
                                    !.Logs = MergeLogEvents(inSource[s].Logs,
                                                            inDestination[d].Logs)]
                ELSE \E e \in DOMAIN (inSource \o inDestination) :
                         kept = (inSource \o inDestination)[e]

\* the logs of the entries merged one after the other, the earlier logs as
\* first argument
RECURSIVE MergedLogsOf(_)
MergedLogsOf(entries) ==
    IF Len(entries) = 1 THEN entries[1].Logs
    ELSE MergeLogEvents(MergedLogsOf(SubSeq(entries, 1, Len(entries) - 1)),
                        entries[Len(entries)].Logs)

\* C20 amended: the same for a hash that occurs once in each list it is in;
\* in general the entry kept for a hash is the last of its entries in the
\* source list followed by the destination list, with the logs of all of
\* them merged in that order.
C20_DestinationCopyWithMergedLogs ==
    Merged =>
        \A hash \in HashesOf(result.value.SmartContractResults) :
            LET kept == EntryOf(result.value.SmartContractResults, hash)
                inSource == Occurrences(SourceScrs, hash)
                inDestination == Occurrences(DestinationScrs, hash)
                all == inSource \o inDestination
            IN  /\ kept = [all[Len(all)] EXCEPT !.Logs = MergedLogsOf(all)]
                /\ (Len(inSource) = 1 /\ Len(inDestination) = 1) =>
                       kept = [inDestination[1] EXCEPT
                                  !.Logs = MergeLogEvents(inSource[1].Logs,
                                                          inDestination[1].Logs)]
                /\ (Len(all) = 1) => kept = all[1]

\* a hash in both lists and one in the list of the source only
C20_Witness ==
    /\ Merged
    /\ HashesOf(SourceScrs) = {"r", "q"}
    /\ HashesOf(DestinationScrs) = {"r"}
    /\ Len(DestinationScrs) = 1
    /\ Len(result.value.SmartContractResults) = 2

\* GetTransaction has returned a transaction
TxReturned == op = "GetTransaction" /\ pc = "done" /\ result.err = Nil

\* C21: a transaction returned by GetTransaction has HyperblockNonce equal to
\* its NotarizedAtDestinationInMetaNonce and HyperblockHash equal to its
\* NotarizedAtDestinationInMetaHash, these being the values the node that
\* answered with the copy returned gave; so for an intra-shard transaction,
\* for the copy of the destination shard and for the copy of the source shard.
C21_HyperblockPromoted ==
    TxReturned =>
        LET transaction == result.value IN
        /\ transaction.HyperblockNonce = transaction.NotarizedAtDestinationInMetaNonce
        /\ transaction.HyperblockHash = transaction.NotarizedAtDestinationInMetaHash
        /\ \E i \in OkCalls :
               /\ transaction.node = calls[i].node
               /\ transaction.HyperblockNonce = <<"metaNonce", calls[i].node.address>>
               /\ transaction.HyperblockHash = <<"metaHash", calls[i].node.address>>

\* a cross-shard transaction found in its source shard and returned as the
\* destination shard holds it
C21_Witness ==
    /\ TxReturned
    /\ Cardinality(OkCalls) = 2
    /\ getShardByAddress(chain.Sender).shard # getShardByAddress(chain.Receiver).shard
    /\ calls[CHOOSE i \in OkCalls : \A j \in OkCalls : i <= j].node.shard
           = getShardByAddress(chain.Sender).shard
    /\ result.value.node.shard = getShardByAddress(chain.Receiver).shard
    /\ result.value.HyperblockNonce # <<>>

\* GetTransactionByHashAndSenderAddress has returned for a sender address
\* that fails decoding
ByHashAndSenderAddressUndecoded ==
    /\ op = "GetTransactionByHashAndSenderAddress"
    /\ pc = "done"
    /\ args.sender # metachainIDStr
    /\ Decode(args.sender).err # Nil

\* C22: GetTransactionByHashAndSenderAddress with a sender address that fails
\* decoding fails with ErrInvalidSenderAddress and HTTP status 400, no
\* observer being contacted.
C22_InvalidSenderIsBadRequest ==
    ByHashAndSenderAddressUndecoded =>
        /\ result.value = NilTx
        /\ result.err = ErrInvalidSenderAddress
        /\ result.code = StatusBadRequest
        /\ calls = <<>>
        /\ lookups = <<>>

\* GetTransactionStatus has returned
StatusServed == op = "GetTransactionStatus" /\ pc = "done"

\* the calls of the initial lookup: those issued before any node answered 200
\* with no error
InitialLookupCalls ==
    {i \in 1..Len(calls) : \A j \in 1..(i - 1) : ~OkAnswer(outs[j])}

\* the elements of a sequence
Range(s) == {s[i] : i \in DOMAIN s}

\* C23: GetTransactionStatus returns the status "unknown" with every error;
\* without sender the only error it returns is ErrTransactionNotFound, also
\* when the lookup of the nodes of a shard fails; with a sender the initial
\* lookup asks only nodes of the sender's shard, its full-history nodes or,
\* when it has none, its observers, and no call asks for the results.
C23_GetTransactionStatus ==
    /\ (StatusServed /\ result.err # Nil) => result.value = UnknownStatusTx
    /\ (StatusServed /\ args.sender = "" /\ result.err # Nil) =>
           result.err = ErrTransactionNotFound
    /\ (StatusServed /\ args.sender = "" /\ lookups # <<>>
            /\ registry[lookups[Len(lookups)].shard] < 0) =>
           result = TxReturn(UnknownStatusTx, 0, ErrTransactionNotFound)
    /\ (op = "GetTransactionStatus" /\ args.sender # "") =>
           LET shard == getShardByAddress(args.sender) IN
           /\ \A i \in 1..Len(calls) :
                  calls[i].path = <<"/transaction/", args.txHash>>
           /\ shard.err # Nil => calls = <<>>
           /\ shard.err = Nil =>
                  /\ \A i \in InitialLookupCalls :
                         calls[i].node \in Range(NodesServing(shard.shard))
                  /\ \A i \in 1..Len(lookups) :
                         lookups[i].what = "GetFullHistoryNodes" =>
                             lookups[i].shard = shard.shard

\* a status asked for with a sender whose shard has no full-history node: its
\* observers were asked and none had the transaction
C23_Witness ==
    /\ StatusServed
    /\ args.sender = "a1"
    /\ fullHistory[1] = 0
    /\ Len(calls) = 2
    /\ calls[1].node = Node(1, 1)
    /\ calls[2].node = Node(1, 2)
    /\ result = TxReturn(UnknownStatusTx, 0, ErrTransactionNotFound)

\* GetTransactionsPool has returned
PoolServed == op = "GetTransactionsPool" /\ pc = "done"

\* the calls to observers of the shard that were answered 200 with no error
OkCallsTo(shard) == {i \in OkCalls : calls[i].node.shard = shard}

\* the regular, smart contract result and reward pools of the first k shards
\* of GetShardIDs, each concatenated in the order of the shards, a shard
\* counting when one of its observers answered 200 with no error
RECURSIVE PoolsOfShards(_)
PoolsOfShards(k) ==
    IF k = 0
    THEN [RegularTransactions |-> <<>>, SmartContractResults |-> <<>>,
          Rewards |-> <<>>]
    ELSE LET before == PoolsOfShards(k - 1)
             ok == OkCallsTo(GetShardIDs[k])
             observer == calls[CHOOSE i \in ok : TRUE].node
         IN  IF ok = {} THEN before
             ELSE [RegularTransactions |->
                       Append(before.RegularTransactions,
                              <<"regular", observer.address>>),
                   SmartContractResults |->
                       Append(before.SmartContractResults,
                              <<"scr", observer.address>>),
                   Rewards |->
                       Append(before.Rewards, <<"reward", observer.address>>)]

\* C24: with shouldAllowEntireTxPoolFetch false GetTransactionsPool fails with
\* ErrOperationNotAllowed and contacts no observer; with the flag true it
\* returns no error and the regular, smart contract result and reward pools,
\* concatenated in the order of GetShardIDs, of exactly the shards one of whose
\* observers answered 200 with no error, a shard whose observers all failed or
\* could not be looked up adding nothing.
C24_GetTransactionsPool ==
    PoolServed =>
        IF ~shouldAllowEntireTxPoolFetch
        THEN /\ result = PoolReturn(NilResp, ErrOperationNotAllowed)
             /\ calls = <<>>
             /\ lookups = <<>>
        ELSE /\ result.err = Nil
             /\ result.value = PoolsOfShards(Len(GetShardIDs))
             /\ \A shard \in AllShards : Cardinality(OkCallsTo(shard)) <= 1
             /\ lookups = [k \in 1..Len(GetShardIDs) |->
                              Lookup("GetObservers", GetShardIDs[k])]

\* the observers of shard 0 all failed, those of shard 1 cannot be looked up,
\* and the pool of the metachain is what is returned
C24_Witness ==
    /\ PoolServed
    /\ shouldAllowEntireTxPoolFetch
    /\ registry[0] > 0 /\ OkCallsTo(0) = {}
    /\ registry[1] < 0
    /\ OkCallsTo(MetachainShardId) # {}
    /\ Len(result.value.RegularTransactions) = 1

\* GetTransactionsPoolForSender or GetTransactionsPoolNonceGapsForSender has
\* returned, for a sender that decodes and whose shard has its observers
\* looked up
PoolForSenderServed ==
    /\ op \in {"GetTransactionsPoolForSender", "GetTransactionsPoolNonceGapsForSender"}
    /\ pc = "done"
    /\ getShardByAddress(args.sender).err = Nil
    /\ registry[getShardByAddress(args.sender).shard] >= 0

\* C25: GetTransactionsPoolForSender and
\* GetTransactionsPoolNonceGapsForSender, for a sender that decodes, return
\* no error and an empty result that is not nil (no transaction, no gap) when
\* every observer of the sender's shard fails, and the payload of the first
\* observer, in the order of the list, that answers 200 with no error when
\* there is one.
C25_EmptyOnTotalFailure ==
    PoolForSenderServed =>
        /\ result.err = Nil
        /\ IF OkCalls = {}
           THEN /\ Len(calls) = registry[getShardByAddress(args.sender).shard]
                /\ result.value =
                       IF op = "GetTransactionsPoolForSender"
                       THEN [kind |-> "response", Transactions |-> <<>>]
                       ELSE [kind |-> "response", Gaps |-> <<>>]
           ELSE /\ OkCalls = {Len(calls)}
                /\ calls[Len(calls)].pos = Len(calls)
                /\ result.value =
                       IF op = "GetTransactionsPoolForSender"
                       THEN PoolForSenderOf(calls[Len(calls)].node)
                       ELSE NonceGapsOf(calls[Len(calls)].node)

\* GetLastPoolNonceForSender has returned, for a sender whose shard has its
\* observers looked up
LastNonceServed ==
    /\ op = "GetLastPoolNonceForSender"
    /\ pc = "done"
    /\ getShardByAddress(args.sender).err = Nil
    /\ registry[getShardByAddress(args.sender).shard] >= 0

\* C26: GetLastPoolNonceForSender asks the observers of the sender's shard in
\* the order of the list and returns the nonce of the first that answers 200
\* with no error, no later observer being asked; when none does, the list
\* being empty included, it returns 0 and ErrTransactionsNotFoundInPool.
C26_LastPoolNonce ==
    LastNonceServed =>
        LET shard == getShardByAddress(args.sender).shard IN
        /\ \A i \in 1..Len(calls) : calls[i].node = Node(shard, i)
        /\ IF OkCalls = {}
           THEN /\ Len(calls) = registry[shard]
                /\ result.value = <<"nonce", <<>>>>
                /\ result.err = ErrTransactionsNotFoundInPool
           ELSE /\ OkCalls = {Len(calls)}
                /\ result.value = <<"nonce", calls[Len(calls)].node.address>>
                /\ result.err = Nil

\* the first of two observers gave the nonce and the second was not asked
C26_Witness ==
    /\ LastNonceServed
    /\ registry[getShardByAddress(args.sender).shard] = 2
    /\ Len(calls) = 1
    /\ OkAnswer(outs[1])
    /\ result = PoolReturn(NonceOf(calls[1].node), Nil)

\* GetESDTSupply has returned a supply
ESDTSucceeded ==
    op = "GetESDTSupply" /\ pc = "done" /\ result.kind = "return" /\ result.err = Nil

\* the number of separators in a token identifier
Dashes(tokenIdentifier) ==
    Cardinality({i \in DOMAIN tokenIdentifier : tokenIdentifier[i] = "-"})

\* the number a string of decimal digits denotes, 0 for the empty string
RECURSIVE NumberOf(_)
NumberOf(s) ==
    IF s = <<>> THEN 0
    ELSE 10 * NumberOf(SubSeq(s, 1, Len(s) - 1))
             + (CHOOSE d \in 0..9 : <<"0", "1", "2", "3", "4", "5", "6", "7", "8", "9">>[d + 1]
                                        = s[Len(s)])

\* the supply the shard reported: the one in the answer that came back
\* without error from one of its observers
ReportedSupply(shard) ==
    LET i == CHOOSE i \in 1..Len(outs) :
                 calls[i].node.shard = shard /\ outs[i].err = "nil"
    IN  NumberOf(outs[i].body)

\* the initial supply the metachain reported: the fourth return value of the
\* query, 0 when there are fewer
ReportedInitialSupply ==
    IF Len(locals.res.ReturnData) < 4 THEN 0 ELSE NumberOf(locals.res.ReturnData[4])

RECURSIVE SumOfShards(_)
SumOfShards(shards) ==
    IF shards = {} THEN 0
    ELSE LET shard == CHOOSE s \in shards : TRUE
         IN  ReportedSupply(shard) + SumOfShards(shards \ {shard})

\* C27: a supply returned by GetESDTSupply(t) is the decimal string of the
\* sum of the supplies the shards other than the metachain reported, plus the
\* initial supply the metachain reported if and only if t is fungible, t
\* being fungible exactly when it has fewer than two '-'; no observer of the
\* metachain is asked for a supply, and the query is issued for a fungible
\* token only.
C27_ESDTSupply ==
    /\ ESDTSucceeded =>
           LET fungible == Dashes(args.tokenIdentifier) < 2
               total == SumOfShards(WorkerShards)
                            + (IF fungible THEN ReportedInitialSupply ELSE 0)
               supply == result.res.Supply
           IN  /\ fungible <=> Len(scQueries) = 1
               /\ ~fungible <=> scQueries = <<>>
               /\ supply # <<>>
               /\ NumberOf(supply) = total
               /\ supply[1] = "0" => supply = <<"0">>
    /\ op = "GetESDTSupply" =>
           /\ \A i \in 1..Len(calls) : calls[i].node.shard # MetachainShardId
           /\ \A i \in 1..Len(lookups) : lookups[i].shard # MetachainShardId
           /\ scQueries # <<>> =>
                  /\ Dashes(args.tokenIdentifier) < 2
                  /\ scQueries = <<[ScAddress |-> esdtContractAddress,
                                    FuncName |-> "getTokenProperties",
                                    Arguments |-> <<args.tokenIdentifier>>]>>

\* a token with one separator: the supplies of the two shards and the initial
\* supply are added
C27_Witness ==
    /\ ESDTSucceeded
    /\ Dashes(args.tokenIdentifier) = 1
    /\ ReportedSupply(0) = 7 /\ ReportedSupply(1) = 7
    /\ ReportedInitialSupply = 2
    /\ result.res.Supply = <<"1", "6">>

\* GetESDTSupply has returned
ESDTServed == op = "GetESDTSupply" /\ pc = "done"

\* the shards whose observers were looked up
LookedUp == {lookups[i].shard : i \in 1..Len(lookups)}

\* the calls to observers of the shard
CallsTo(shard) == {i \in 1..Len(calls) : calls[i].node.shard = shard}

\* no observer of the shard yielded a supply: its list is empty, or every one
\* of its observers was asked and every call came back with an error
NoSupplyFrom(shard) ==
    /\ shard \in LookedUp
    /\ registry[shard] >= 0
    /\ Cardinality(CallsTo(shard)) = registry[shard]
    /\ \A i \in CallsTo(shard) : i <= Len(outs) /\ outs[i].err # "nil"

\* the shard is the last GetESDTSupply turned to
LastShard(shard) ==
    /\ lookups[Len(lookups)].shard = shard
    /\ \A i \in 1..Len(calls) :
           calls[i].node.shard \in {lookups[k].shard : k \in 1..Len(lookups)}

\* C28: when no observer of a worker shard yields a supply, every call coming
\* back with an error or the list being empty, GetESDTSupply fails with
\* ErrSendingRequest and no supply, turns to no further shard and issues no
\* query; when GetObservers fails for a shard it fails likewise with that
\* error, and when the query for a fungible token fails, with the error of
\* the query.
C28_ESDTFailures ==
    ESDTServed =>
        /\ \A shard \in WorkerShards :
               NoSupplyFrom(shard) =>
                   /\ result = [kind |-> "return", res |-> NilResp,
                                err |-> ErrSendingRequest]
                   /\ LastShard(shard)
                   /\ scQueries = <<>>
        /\ \A shard \in LookedUp :
               registry[shard] < 0 =>
                   /\ result = [kind |-> "return", res |-> NilResp,
                                err |-> ErrNoObserversForShard]
                   /\ LastShard(shard)
                   /\ CallsTo(shard) = {}
                   /\ scQueries = <<>>
        /\ (scQueries # <<>> /\ locals.res.err # Nil) =>
               result = [kind |-> "return", res |-> NilResp, err |-> locals.res.err]
        /\ (result.kind = "return" /\ result.err = ErrSendingRequest) =>
               \E shard \in WorkerShards : NoSupplyFrom(shard)
        /\ (result.kind = "return" /\ result.err # Nil) => result.res = NilResp

\* shard 0 gave its supply and the two observers of shard 1 failed
C28_Witness ==
    /\ ESDTServed
    /\ \E i \in CallsTo(0) : outs[i].err = "nil" /\ outs[i].body = <<"7">>
    /\ registry[1] = 2
    /\ NoSupplyFrom(1)
    /\ result.err = ErrSendingRequest

\* C29: getShardSupply uses the supply of an answer only when the call came
\* back with status 200 and no error: after an answer with no error and a
\* status other than 200 the next observer of the shard is asked, or the shard
\* has yielded no supply when it was the last.
C29_NonOkStatusSkipped ==
    op = "GetESDTSupply" =>
        \A i \in 1..Len(outs) :
            (outs[i].err = "nil" /\ outs[i].status # StatusOK) =>
                IF calls[i].pos < calls[i].of
                THEN /\ pc = "getShardSupply"
                     /\ Len(calls) > i => calls[i + 1].node.shard = calls[i].node.shard
                ELSE /\ pc = "done"
                     /\ result = [kind |-> "return", res |-> NilResp,
                                  err |-> ErrSendingRequest]

\* the two requests served concurrently are the same operation with the same
\* arguments
SameRequest ==
    /\ parked # NoRequest
    /\ op # "none"
    /\ parked.op = op
    /\ parked.args = args
    /\ parked.tx = tx
    /\ parked.checkSig = checkSig

\* the number of calls both requests have issued
CallsOfBoth == IF Len(calls) <= Len(parked.calls) THEN Len(calls) ELSE Len(parked.calls)

\* what a request does depends on its arguments and on the answers it
\* received only: of two requests with the same arguments served concurrently,
\* in whatever order their steps are taken, the calls are the same as long as
\* the answers were, and so are the results once both have returned
Deterministic ==
    SameRequest =>
        /\ \A k \in 1..CallsOfBoth :
               (\A j \in 1..(k - 1) : outs[j] = parked.outs[j]) =>
                   calls[k] = parked.calls[k]
        /\ (pc = "done" /\ parked.pc = "done" /\ outs = parked.outs) =>
               /\ result = parked.result
               /\ calls = parked.calls
               /\ lookups = parked.lookups

C38_NeverAborts == ESDTServed => result.kind # "panic"

\* C36: the query of getInitialSupplyFromMeta goes to the ESDT system
\* contract, function getTokenProperties, with the token as its only
\* argument; when the query succeeds, the initial supply added to the supply
\* of the shards is the number the fourth return value denotes in base 10 if
\* there are at least four return values, and 0 otherwise.
C36_InitialSupplyFromMeta ==
    op = "GetESDTSupply" =>
        /\ (pc = "getInitialSupplyFromMeta" \/ scQueries # <<>>) =>
               scQueries =
                   <<[ScAddress |->
                          "erd1qqqqqqqqqqqqqqqpqqqqqqqqqqqqqqqqqqqqqqqqqqqqqqqzllls8a5w6u",
                      FuncName |-> "getTokenProperties",
                      Arguments |-> <<args.tokenIdentifier>>]>>
        /\ (ESDTSucceeded /\ scQueries # <<>>) =>
               LET returnData == locals.res.ReturnData
                   initial == NumberOf(result.res.Supply) - locals.totalSupply
               IN  /\ locals.res.err = Nil
                   /\ Len(returnData) < 4 => initial = 0
                   /\ Len(returnData) >= 4 => initial = NumberOf(returnData[4])

\* the shards reported 7 in all and the query returned four values, the
\* fourth being "2"
C36_Witness ==
    /\ ESDTSucceeded
    /\ scQueries # <<>>
    /\ Len(locals.res.ReturnData) = 4
    /\ locals.res.ReturnData[4] = <<"2">>
    /\ locals.totalSupply = 7
    /\ result.res.Supply = <<"9">>

\* the position of a shard in the order getTxFromObservers scans the shards
ScanPos(shard) == CHOOSE k \in 1..Len(GetShardIDs) : GetShardIDs[k] = shard

\* call i belongs to the scan of getTxFromObservers: no earlier call of the
\* request was answered 200 with no error
ScanCall(i) ==
    /\ op \in {"GetTransaction", "GetTransactionStatus"}
    /\ args.sender = ""
    /\ i \in 1..Len(calls)
    /\ \A j \in 1..(i - 1) : j <= Len(outs) /\ ~OkAnswer(outs[j])

\* the scan goes on with the shard after the one of call i: the next call of
\* the scan goes to the first node of a later shard
NextShardAfter(i) ==
    /\ Len(calls) = i => pc \in {"getTxFromObservers", "getTxFromObserver", "done"}
    /\ (Len(calls) = i /\ pc = "getTxFromObserver") => idx = 1
    /\ (Len(calls) = i /\ pc = "done") => result.err # Nil
    /\ Len(calls) > i =>
           /\ calls[i + 1].pos = 1
           /\ ScanPos(calls[i + 1].node.shard) > ScanPos(calls[i].node.shard)

\* C33: in the scan of getTxFromObservers, after a call that returns an error
\* the next node of the same shard is asked, or the next shard when it was the
\* last; after a call that returns no error and a status other than 200 no
\* further node of the shard is asked and the scan goes on with the next
\* shard; a call that returns 200 and no error ends the scan and the
\* operation returns the transaction, processed, with no error.
C33_ScanOfShard ==
    \A i \in 1..Len(outs) :
        ScanCall(i) =>
            IF outs[i].err # "nil"
            THEN IF calls[i].pos < calls[i].of
                 THEN /\ Len(calls) = i => pc = "getTxFromObserver" /\ idx = calls[i].pos + 1
                      /\ Len(calls) > i =>
                             /\ calls[i + 1].node.shard = calls[i].node.shard
                             /\ calls[i + 1].pos = calls[i].pos + 1
                 ELSE NextShardAfter(i)
            ELSE IF outs[i].status # StatusOK
            THEN NextShardAfter(i)
            ELSE /\ pc \notin {"getTxFromObservers", "getTxFromObserver"}
                 /\ pc = "done" => result.err = Nil
                 /\ \A j \in (i + 1)..Len(calls) : ~ScanCall(j)

\* the first of the two nodes of shard 0 answered 404 and shard 1 was asked
\* next, where the first node failed with an error and the second returned
\* the transaction
C33_Witness ==
    /\ op = "GetTransaction"
    /\ pc = "done"
    /\ Len(outs) >= 3
    /\ calls[1].node.shard = 0 /\ calls[1].of = 2
    /\ outs[1].err = "nil" /\ outs[1].status = StatusNotFound
    /\ calls[2].node.shard = 1 /\ calls[2].pos = 1
    /\ outs[2].err = "transport"
    /\ calls[3].node.shard = 1 /\ calls[3].pos = 2
    /\ OkAnswer(outs[3])
    /\ result.err = Nil

\* the shards of the sender and of the receiver of the transaction the nodes
\* hold
SourceShardOf(c) == getShardByAddress(c.Sender).shard
DestShardOf(c) == getShardByAddress(c.Receiver).shard

\* the call that ended the scan of getTxFromObservers: the first answered 200
\* with no error
ScanEnd == CHOOSE i \in OkCalls : \A j \in OkCalls : i <= j

\* getTxFromObservers found a transaction that crosses shards
CrossShardFound ==
    /\ op \in {"GetTransaction", "GetTransactionStatus"}
    /\ args.sender = ""
    /\ OkCalls # {}
    /\ SourceShardOf(chain) # DestShardOf(chain)

\* the lookups made after the lists of the shard were obtained for the last
\* time
LookupsAfter(shard) ==
    LET of == {k \in 1..Len(lookups) : lookups[k].shard = shard}
        last == CHOOSE k \in of : \A l \in of : l <= k
    IN  SubSeq(lookups, last + 1, Len(lookups))

\* what the operation returns for the transaction t handed up by
\* getTxFromObservers or getTxWithSenderAddr
Handed(t) ==
    IF op = "GetTransaction"
    THEN [t EXCEPT !.HyperblockNonce = t.NotarizedAtDestinationInMetaNonce,
                   !.HyperblockHash = t.NotarizedAtDestinationInMetaHash]
    ELSE IF op = "GetTransactionStatus" THEN t.Status
    ELSE t

\* the result is the copy t with the smart contract results of t and of
\* other merged: one entry for every hash of the two lists
IsMergeInto(t, other) ==
    LET scResults == result.value.SmartContractResults IN
    /\ [result.value EXCEPT !.SmartContractResults = t.SmartContractResults] = Handed(t)
    /\ \A a, b \in DOMAIN scResults : scResults[a].Hash = scResults[b].Hash => a = b
    /\ HashesOf(scResults) = HashesOf(t.SmartContractResults)
                                 \cup HashesOf(other.SmartContractResults)

\* the nodes asked in the source shard: its full-history nodes, the regular
\* observers when it has none or they cannot be obtained
SourceNode(shard, k) ==
    IF fullHistory[shard] > 0 THEN FullHistoryNode(shard, k) ELSE Node(shard, k)

\* C34: when the scan of getTxFromObservers ends with the answer of a node of
\* the destination shard of a cross-shard transaction, the nodes of the source
\* shard are looked up (full-history nodes, the regular observers when there
\* are none) if and only if withResults is set and the copy answered has a
\* smart contract result; they are then asked in order up to the first that
\* answers 200 with no error, and the copy of the destination shard is
\* returned with the two lists of smart contract results merged.  In every
\* other case the copy of the destination shard is returned as it is, with no
\* error.
C34_SourceLookupIfNeeded ==
    (CrossShardFound /\ calls[ScanEnd].node.shard = DestShardOf(chain)) =>
        LET i == ScanEnd
            destTx == outs[i].body
            source == SourceShardOf(chain)
            second == LookupsAfter(DestShardOf(chain))
            made == second # <<>>
            n == IF fullHistory[source] > 0 THEN fullHistory[source]
                 ELSE IF registry[source] > 0 THEN registry[source] ELSE 0
        IN  /\ made <=> (args.withResults /\ Len(destTx.SmartContractResults) > 0)
            /\ made =>
                   second = IF fullHistory[source] > 0
                            THEN <<Lookup("GetFullHistoryNodes", source)>>
                            ELSE <<Lookup("GetFullHistoryNodes", source),
                                   Lookup("GetObservers", source)>>
            /\ ~made => Len(calls) = i /\ pc = "done"
            /\ Len(calls) <= i + n
            /\ \A j \in (i + 1)..Len(calls) :
                   /\ calls[j].node = SourceNode(source, j - i)
                   /\ j - 1 > i => ~OkAnswer(outs[j - 1])
            /\ pc # "done" =>
                   /\ pc = "alterTxWithScResultsFromSourceIfNeeded"
                   /\ OkCalls = {i}
            /\ pc = "done" =>
                   /\ result.err = Nil
                   /\ Len(outs) = Len(calls)
                   /\ IF OkCalls # {i}
                      THEN /\ OkCalls = {i, Len(outs)}
                           /\ IsMergeInto(destTx, outs[Len(outs)].body)
                      ELSE /\ result.value = Handed(destTx)
                           /\ Len(calls) = i + (IF made THEN n ELSE 0)

\* a node of the destination shard answered with a smart contract result, the
\* first full-history node of the source shard failed and the second
\* answered: the result is the copy of the destination shard with the merged
\* list
C34_Witness ==
    /\ CrossShardFound
    /\ op = "GetTransaction"
    /\ pc = "done"
    /\ args.withResults
    /\ calls[ScanEnd].node.shard = DestShardOf(chain)
    /\ Len(calls) = ScanEnd + 2
    /\ calls[Len(calls)].node = FullHistoryNode(SourceShardOf(chain), 2)
    /\ OkAnswer(outs[Len(outs)])
    /\ result.value.SmartContractResults # outs[ScanEnd].body.SmartContractResults
    /\ result.value.Status = outs[ScanEnd].body.Status

\* a transaction was found by one of the three lookups
TxFound ==
    /\ op \in {"GetTransaction", "GetTransactionStatus",
               "GetTransactionByHashAndSenderAddress"}
    /\ OkCalls # {}

\* the shard the lookup takes as the source of the transaction found: that of
\* its sender, or that of the sender address given with the request
SenderShard ==
    IF args.sender = "" THEN SourceShardOf(chain)
    ELSE getShardByAddress(args.sender).shard

\* the transaction found crosses shards
CrossShard == SenderShard # DestShardOf(chain)

\* the number of regular observers of the shard that can be asked
ObserversOf(shard) == IF registry[shard] > 0 THEN registry[shard] ELSE 0

\* C35: when the first node that answers 200 with no error is outside the
\* destination shard of a cross-shard transaction, the regular observers of
\* the destination shard are asked in order up to the first that answers 200
\* with no error, an error and another status both leading to the next
\* observer; if one answers so, the copy of the destination shard is returned
\* with the smart contract results of the two copies merged where results are
\* asked for; if none does, the list being exhausted or empty or GetObservers
\* failing, the copy obtained first is returned; there is no error in either
\* case.  For an intra-shard transaction the copy answered is returned and no
\* further call is made.
C35_DestinationShardAsked ==
    /\ (TxFound /\ CrossShard /\ calls[ScanEnd].node.shard # DestShardOf(chain)) =>
           LET i == ScanEnd
               sourceTx == outs[i].body
               dest == DestShardOf(chain)
           IN  /\ lookups[Len(lookups)] = Lookup("GetObservers", dest)
               /\ Len(calls) <= i + ObserversOf(dest)
               /\ \A j \in (i + 1)..Len(calls) :
                      /\ calls[j].node = Node(dest, j - i)
                      /\ j - 1 > i => ~OkAnswer(outs[j - 1])
               /\ pc # "done" => pc = "getTxFromDestShard" /\ OkCalls = {i}
               /\ pc = "done" =>
                      /\ result.err = Nil
                      /\ Len(outs) = Len(calls)
                      /\ IF OkCalls # {i}
                         THEN /\ OkCalls = {i, Len(outs)}
                              /\ IF args.withResults
                                 THEN IsMergeInto(outs[Len(outs)].body, sourceTx)
                                 ELSE result.value = Handed(outs[Len(outs)].body)
                         ELSE /\ result.value = Handed(sourceTx)
                              /\ Len(calls) = i + ObserversOf(dest)
    /\ (TxFound /\ ~CrossShard) =>
           /\ pc = "done"
           /\ Len(calls) = ScanEnd
           /\ result.err = Nil
           /\ result.value = Handed(outs[ScanEnd].body)

\* a node of the source shard answered, the first observer of the destination
\* shard failed with an error and the second answered another status than
\* 200: the copy of the source shard is returned
C35_Witness ==
    /\ TxFound /\ CrossShard
    /\ pc = "done"
    /\ calls[ScanEnd].node.shard = SourceShardOf(chain)
    /\ Len(calls) = ScanEnd + 2
    /\ outs[ScanEnd + 1].err = "transport"
    /\ outs[ScanEnd + 2].err = "nil" /\ outs[ScanEnd + 2].status = StatusNotFound
    /\ calls[ScanEnd + 2].node = Node(DestShardOf(chain), 2)
    /\ result.err = Nil
    /\ result.value = Handed(outs[ScanEnd].body)

\* the result is the copy answered to call i, its list of smart contract
\* results apart
CopyOfCall(i) ==
    IF op = "GetTransactionStatus"
    THEN result.value = outs[i].body.Status
    ELSE [result.value EXCEPT
             !.SmartContractResults = outs[i].body.SmartContractResults]
             = Handed(outs[i].body)

\* the smart contract results returned are those of the copy answered to call
\* i, or one entry for every hash in the copies answered
ScrsOfCallOrUnion(i) ==
    \/ op = "GetTransactionStatus"
    \/ result.value.SmartContractResults = outs[i].body.SmartContractResults
    \/ HashesOf(result.value.SmartContractResults)
           = UNION {HashesOf(outs[j].body.SmartContractResults) : j \in OkCalls}

\* C39: a lookup that found a cross-shard transaction returns the copy of the
\* destination shard whenever a node of the destination shard answered 200
\* with no error in the course of the request: its status and its fields as
\* that node gave them, the list of smart contract results being its own or
\* the merged one.  The copy of a node outside the destination shard is
\* returned, as it is, only when no node of the destination shard answered so.
C39_DestinationCopyReturned ==
    (TxFound /\ pc = "done" /\ SourceShardOf(chain) # DestShardOf(chain)) =>
        LET fromDest == OkCallsTo(DestShardOf(chain)) IN
        /\ result.err = Nil
        /\ fromDest # {} =>
               \E i \in fromDest : CopyOfCall(i) /\ ScrsOfCallOrUnion(i)
        /\ fromDest = {} =>
               /\ op # "GetTransactionStatus" =>
                      \E i \in OkCalls : result.value = Handed(outs[i].body)
               /\ op = "GetTransactionStatus" =>
                      \E i \in OkCalls : result.value = outs[i].body.Status

\* a node of the source shard answered first and an observer of the
\* destination shard answered then: the copy of the latter is returned, with
\* the merged list
C39_Witness ==
    /\ TxFound /\ pc = "done"
    /\ op = "GetTransaction" /\ args.withResults
    /\ SourceShardOf(chain) # DestShardOf(chain)
    /\ calls[ScanEnd].node.shard = SourceShardOf(chain)
    /\ OkCallsTo(DestShardOf(chain)) = {Len(outs)}
    /\ result.value.Status = outs[Len(outs)].body.Status
    /\ result.value.Status # outs[ScanEnd].body.Status
    /\ result.value.SmartContractResults # outs[Len(outs)].body.SmartContractResults

\* the positions in the list given of the transactions that pass the
\* validation
ValidPositions == {j \in 1..Len(args.txs) : ~InvalidFields(args.txs[j])}

\* the Index groupTxsByShard gives the transaction at position j: its
\* position, from 0, among the transactions that pass the validation
IndexOfPosition(j) == Cardinality({k \in ValidPositions : k < j})

\* the transaction at position j is in the group of a sender shard
Grouped(j) == j \in ValidPositions /\ ShardOf(args.txs[j].Sender).err = Nil

\* the shards whose group was accepted by an observer
AcceptedShards == {calls[i].node.shard : i \in OkCalls}

\* C40: with a transaction that passes the validation and the observers of
\* every sender shard obtained, SendMultipleTransactions returns no error,
\* whatever the observers answer, also when none accepts the group of a shard
\* or of any shard.  A group that no observer accepted has no entry in
\* txHashes and adds nothing to numOfTxs: numOfTxs is the sum over the ok
\* answers, and every key of txHashes is the Index of a transaction whose
\* group was accepted.
C40_NilErrorWithoutAcceptance ==
    (MultiServed
        /\ ValidPositions # {}
        /\ \A j \in 1..Len(args.txs) :
               Grouped(j) => registry[ShardOf(args.txs[j].Sender).shard] >= 0) =>
        /\ result.err = Nil
        /\ result.response.NumOfTxs = SumNumOfTxs(Len(outs))
        /\ AcceptedShards = {} =>
               result.response = [NumOfTxs |-> 0, TxsHashes |-> <<>>]
        /\ \A key \in DOMAIN result.response.TxsHashes :
               \E j \in 1..Len(args.txs) :
                   /\ Grouped(j)
                   /\ IndexOfPosition(j) = key
                   /\ ShardOf(args.txs[j].Sender).shard \in AcceptedShards
        /\ \A j \in 1..Len(args.txs) :
               (Grouped(j) /\ ShardOf(args.txs[j].Sender).shard \notin AcceptedShards) =>
                   IndexOfPosition(j) \notin DOMAIN result.response.TxsHashes

\* two transactions of two shards: the group of shard 0 was accepted and both
\* observers of shard 1 refused theirs
C40_Witness ==
    /\ MultiServed
    /\ Len(args.txs) = 2
    /\ ValidPositions = {1, 2}
    /\ registry[1] = 2
    /\ AcceptedShards = {0}
    /\ Cardinality({i \in 1..Len(calls) : calls[i].node.shard = 1}) = 2
    /\ result.err = Nil
    /\ result.response.NumOfTxs = 1
    /\ Cardinality(DOMAIN result.response.TxsHashes) = 1

\* no observer accepted the group of the only shard
C40_WitnessNone ==
    /\ MultiServed
    /\ ValidPositions # {}
    /\ calls # <<>>
    /\ AcceptedShards = {}
    /\ result = MultiReturn(EmptyMultipleTransactionsResponseData, Nil)

\* ComputeTransactionHash has returned
HashServed == op = "ComputeTransactionHash" /\ pc = "done"

\* a string of decimal digits
IsDecimal(s) ==
    /\ s # <<>>
    /\ \A i \in 1..Len(s) : s[i] \in {"0", "1", "2", "3", "4", "5", "6", "7", "8", "9"}

\* an address that decodes
Decodable(address) == address \in {"a0", "a1", "aX"}

\* C37: ComputeTransactionHash reports the first failure of its input in the
\* order: value not a number (ErrInvalidTransactionValueField), receiver not
\* decodable (ErrInvalidAddress), sender not decodable (ErrInvalidAddress),
\* signature not hex (ErrInvalidSignatureBytes), each with the empty hash;
\* for a well-formed transaction it returns no error, and the empty hash
\* exactly when marshaling or hashing failed.
C37_ComputeTransactionHashErrors ==
    HashServed =>
        IF ~IsDecimal(tx.Value)
        THEN result = [hash |-> <<>>, err |-> [kind |-> "ErrInvalidTransactionValueField"]]
        ELSE IF ~Decodable(tx.Receiver) \/ ~Decodable(tx.Sender)
        THEN result = [hash |-> <<>>, err |-> [kind |-> "ErrInvalidAddress"]]
        ELSE IF ~IsHexString(tx.Signature)
        THEN result = [hash |-> <<>>, err |-> [kind |-> "ErrInvalidSignatureBytes"]]
        ELSE /\ result.err = Nil
             /\ result.hash = <<>> <=> locals.calculated.err # Nil

\* a well-formed transaction whose marshaling failed: the empty hash and no
\* error
C37_Witness ==
    /\ HashServed
    /\ IsDecimal(tx.Value) /\ Decodable(tx.Receiver) /\ Decodable(tx.Sender)
    /\ IsHexString(tx.Signature) /\ tx.Signature # <<>>
    /\ locals.calculated.err # Nil
    /\ result = [hash |-> <<>>, err |-> Nil]

\* the receiver does not decode and the signature is not hex: the address is
\* reported
C37_WitnessOrder ==
    /\ HashServed
    /\ IsDecimal(tx.Value)
    /\ ~Decodable(tx.Receiver)
    /\ ~IsHexString(tx.Signature)
    /\ result.err = [kind |-> "ErrInvalidAddress"]

\* one of the operations of the node-status processor has returned
NodeStatusServed == op \in NodeStatusOps /\ pc = "done"

\* the shards whose observers the operation turns to
StatusShards ==
    IF op = "GetNetworkConfigMetrics" THEN AllShards
    ELSE IF op = "GetNetworkStatusMetrics" THEN {args.shardID}
    ELSE {MetachainShardId}

\* the lookup of the observers fails: no list can be obtained
StatusLookupFails == \A shard \in StatusShards : registry[shard] < 0

RECURSIVE ObserversIn(_)
ObserversIn(shards) ==
    IF shards = {} THEN 0
    ELSE LET shard == CHOOSE s \in shards : TRUE
         IN  ObserversOf(shard) + ObserversIn(shards \ {shard})

\* the calls that returned no error
NoErrorCalls == {i \in 1..Len(outs) : outs[i].err = "nil"}

C32_WitnessExhausted ==
    /\ NodeStatusServed
    /\ op = "GetNetworkStatusMetrics"
    /\ Len(calls) = 2
    /\ NoErrorCalls = {}
    /\ result.err = ErrSendingRequest

\* GetLatestFullySynchronizedHyperblockNonce has returned a nonce
NonceServed ==
    op = "GetLatestFullySynchronizedHyperblockNonce" /\ pc = "done" /\ result.err = Nil

\* the status the shard answered: that of its observer whose call returned no
\* error
StatusOfShard(shard) ==
    outs[CHOOSE i \in NoErrorCalls : calls[i].node.shard = shard].body

\* the value the request collected for the shard
CollectedFor(shard) ==
    IF shard = MetachainShardId
    THEN StatusOfShard(shard).erd_nonce
    ELSE StatusOfShard(shard).erd_cross_check_block_height[2]

\* the result is the least of the values collected, one for every shard, the
\* metachain included
LeastCollected ==
    /\ \A shard \in AllShards :
           /\ \E i \in NoErrorCalls : calls[i].node.shard = shard
           /\ result.nonce <= CollectedFor(shard)
    /\ \E shard \in AllShards : result.nonce = CollectedFor(shard)

====
